---- MODULE Spec2Model ----
(***************************************************************************)
(* baycat: one-way directory synchronisation driven by manifests.          *)
(*                                                                         *)
(* The model follows baycat/sync_strategies.py (the sync engine and its    *)
(* three strategies), baycat/manifest.py (diff_from and the mark_*         *)
(* mutators), baycat/local_file.py (the entry delta) and                   *)
(* baycat/cli_impl.py (load / sync / save of the manifests).               *)
(*                                                                         *)
(* A relative path is the sequence of its "/"-separated components; the    *)
(* empty sequence is the empty string.  A tree or a manifest is a function *)
(* from the paths it holds to their records.  collected is left out of the *)
(* records: neither the delta nor the entry equality reads it.             *)
(***************************************************************************)
EXTENDS Integers, Sequences, FiniteSets, TLC

VARIABLES
    strategy,            \* "LL" SyncLocalToLocal, "LS3" SyncLocalToS3, "S3L" SyncS3ToLocal
    dry_run,             \* SyncStrategy.dry_run
    enable_delete,       \* SyncStrategy.enable_delete
    overwrite_regressed, \* SyncStrategy.overwrite_regressed
    manifest_src,        \* SyncStrategy.manifest_src.entries
    manifest_dst,        \* SyncStrategy.manifest_dst.entries
    manifest_xfer,       \* SyncStrategy.manifest_xfer.entries
    diff_state,          \* SyncStrategy.diff_state
    paths_touched,       \* sync(): paths_touched
    dir_fixups,          \* sync(): dir_fixups, a set of <<-depth, path>>
    counters,            \* SyncStrategy._counters
    dirty,               \* SyncStrategy._dirty
    pc,                  \* the loop of sync() that is running
    todo,                \* what the running loop has still to visit
    cur,                 \* the path between transfer_file and transfer_metadata
    src_tree,            \* the local source directory
    dst_tree,            \* the local destination directory
    store,               \* the bucket: object key -> content
    temps,               \* temp files left beside these destination paths
    calls,               \* strategy primitives invoked so far: <<op, path>> -> count
    raised,              \* the primitive invocations that raised: <<op, path>>
    escaped,             \* the exception that left sync(), or None
    run,                 \* which sync of the scenario this is
    before,              \* the endpoints as they were when this sync began
    prev,                \* what the sync before this one returned
    saved_src,           \* the source's persisted manifest
    saved_dst,           \* the destination's persisted manifest
    faults,              \* how many I/O errors may still strike
    reserved_prefix,     \* Manifest.reserved_prefix of the manifest in
                         \* manifest_dst, as a path; << >> if there is none
    pool,                \* run_selectors: the checksum jobs and their results
    s3,                  \* S3Manifest.update: the listing as far as it was read
    heap,                \* the entry objects, by identity, where manifests
                         \* are taken as maps from paths to objects
    selectors,           \* Manifest.selectors of the manifest in manifest_dst:
                         \* the root paths of its PathSelectors
    disk,                \* the metadata directory of that manifest and the
                         \* manifest file in it
    fs                   \* what _transfer_file sees around the destination:
                         \* the working directory, directories outside the
                         \* destination tree, the temp file of mkstemp

vars == <<strategy, dry_run, enable_delete, overwrite_regressed, manifest_src,
          manifest_dst, manifest_xfer, diff_state, paths_touched, dir_fixups,
          counters, dirty, pc, todo, cur, src_tree, dst_tree, store, temps,
          calls, raised, escaped, run, before, prev, saved_src, saved_dst,
          faults, reserved_prefix, pool, s3, heap, selectors, disk, fs>>

\* the fields of a manifest that no step of a sync writes
manifest_fields == <<reserved_prefix, pool, s3, heap, selectors, disk, fs>>

None == "None"

\* a file that is not there
NoFile == [written |-> "none", entries |-> << >>, keys |-> {}]

\* no metadata directory
NoDisk == [path |-> "absent", manifest |-> NoFile]

\* a process in the directory above a destination given by its absolute
\* path, no directory of interest elsewhere, no temp file
NoFs == [cwd |-> <<"/", "w">>, dirs |-> {}, same_dev |-> TRUE,
         dst_temp |-> None, written |-> << >>]

\* no listing of the bucket has been asked for
NoListing == [LastModified |-> << >>, response |-> None, i |-> 0,
              s3_list_objects |-> 0, objsums |-> << >>]

\* no checksum job has been handed out
NoPool == [poolsize |-> 1, f_ck_args |-> << >>, dispatched |-> 0,
           running |-> {}, d_cksums |-> << >>]

\* Manifest._default_metadata_path, relative to the root: METADATA_DIRNAME
_default_metadata_path == <<".baycat">>

-----------------------------------------------------------------------------
(* Bounds of the model.                                                    *)

\* mtimes of the trees are drawn from 1..MaxTime
MaxTime == 3
\* how many syncs a scenario runs
MaxRuns == 2
\* I/O errors injected into one scenario
MaxFaults == 1

Times == 1..MaxTime
\* the mtime every source entry carries: destinations are older, equal or newer
SrcTime == MaxTime - 1
\* the time of the sync itself, later than every mtime collected before it
Now == MaxTime + 1

Root == <<".">>
Paths == {Root, <<"a">>, <<"a", "f">>}

Contents == {"x", "yy"}
SizeOf(data) == IF data = "x" THEN 1 ELSE 2
FilePerms == {"0644", "0600"}
\* what os.makedirs and tempfile.mkstemp give to what they create
MakedirsPerm == "0755"
MkstempPerm == "0600"

\* the owner of what the process creates: os.getuid(), os.getgid()
ProcUid == "u0"
ProcGid == "g0"

-----------------------------------------------------------------------------
(* Paths.                                                                  *)

\* os.path.dirname on a relative path
dirname(p) == IF Len(p) <= 1 THEN <<>> ELSE SubSeq(p, 1, Len(p) - 1)

\* len(p.split("/")): the empty string splits into one empty component
n_comps(p) == IF p = <<>> THEN 1 ELSE Len(p)

\* the directory that holds root/p on disk (expand_path joins p to the root)
FsParent(p) == IF Len(p) <= 1 THEN Root ELSE dirname(p)

Children(tree, p) == {q \in DOMAIN tree : q # Root /\ q # p /\ FsParent(q) = p}

Restrict(f, S) == [x \in S |-> f[x]]

Put(f, k, v) == [x \in DOMAIN f \cup {k} |-> IF x = k THEN v ELSE f[x]]

-----------------------------------------------------------------------------
(* Trees and the manifests collected from them.                            *)

\* a node as it is made or written: it was last accessed when it was
\* last modified
DirNode(mtime, uid, gid, perm) ==
    [is_dir |-> TRUE, data |-> None, mtime_ns |-> mtime, atime_ns |-> mtime,
     uid |-> uid, gid |-> gid, perm |-> perm]

FileNode(data, mtime, uid, gid, perm) ==
    [is_dir |-> FALSE, data |-> data, mtime_ns |-> mtime, atime_ns |-> mtime,
     uid |-> uid, gid |-> gid, perm |-> perm]

\* st_mode: the file type bits together with the permission bits
StMode(node) == <<IF node.is_dir THEN "S_IFDIR" ELSE "S_IFREG", node.perm>>

\* st_size of a node (a directory's size is the same everywhere)
StSize(node) == IF node.is_dir THEN 0 ELSE SizeOf(node.data)

\* a tree holds its root, and every other path lies in a directory it holds
WellFormed(tree) ==
    /\ Root \in DOMAIN tree
    /\ tree[Root].is_dir
    /\ \A p \in DOMAIN tree \ {Root} :
          FsParent(p) \in DOMAIN tree /\ tree[FsParent(p)].is_dir

\* the trees that hold some of paths, each path with one of nodes
TreesOn(paths, nodes) ==
    {t \in UNION {[d -> nodes] : d \in SUBSET paths} : WellFormed(t)}

TreesOver(nodes) == TreesOn(Paths, nodes)

\* LocalFile.__init__ from a stat result; no checksum is computed
LocalFile(node) ==
    [is_dir |-> node.is_dir, size |-> StSize(node), mtime_ns |-> node.mtime_ns,
     cksum |-> None, cksum_type |-> "MD5",
     uid |-> node.uid, gid |-> node.gid, mode |-> StMode(node),
     atime_ns |-> node.atime_ns]

\* Manifest.for_path: the root, every file and every directory of the tree
ManifestForPath(tree) == [p \in DOMAIN tree |-> LocalFile(tree[p])]

-----------------------------------------------------------------------------
(* The entry delta and the diff of two manifests.                          *)

\* LocalFile.TIME_RESOLUTION_NS
TIME_RESOLUTION_NS == 1

Abs(x) == IF x < 0 THEN -x ELSE x

\* a delta that compares the digests as well
delta_compare_checksums(new, old) ==
    [size     |-> new.size # old.size,
     mtime_ns |-> Abs(new.mtime_ns - old.mtime_ns) > TIME_RESOLUTION_NS - 1,
     cksum    |-> new.cksum # old.cksum,
     uid      |-> new.uid # old.uid,
     gid      |-> new.gid # old.gid,
     mode     |-> new.mode # old.mode]

\* LocalFile.delta with compare_checksums=False: the dirty flag of each field
delta(new, old) ==
    [size     |-> new.size # old.size,
     mtime_ns |-> Abs(new.mtime_ns - old.mtime_ns) > TIME_RESOLUTION_NS - 1,
     cksum    |-> FALSE,
     uid      |-> new.uid # old.uid,
     gid      |-> new.gid # old.gid,
     mode     |-> new.mode # old.mode]

delta_dirty(d) == d.size \/ d.mtime_ns \/ d.cksum \/ d.uid \/ d.gid \/ d.mode

\* nanoseconds in a second: the 1e9 of S3File.__init__ and S3File.delta
NS_PER_S == 1000000000

\* the class of an entry: an S3File carries its class name, and an entry
\* that carries none is a LocalFile
JSON_CLASSNAME(e) ==
    IF "_json_classname" \in DOMAIN e THEN e._json_classname ELSE "LocalFile"

\* S3File.delta with compare_checksums=False: the dirty flag of each field
S3File_delta_result(new, old) ==
    [size     |-> new.size # old.size,
     mtime_ns |-> Abs(new.mtime_ns - old.mtime_ns) > NS_PER_S,
     cksum    |-> FALSE,
     uid      |-> new.uid # old.uid,
     gid      |-> new.gid # old.gid,
     mode     |-> old.mode # new.mode]

\* lf_new.delta(lf_old): the delta of the class of the new entry
file_delta(new, old) ==
    IF JSON_CLASSNAME(new) = "S3File"
    THEN S3File_delta_result(new, old) ELSE delta(new, old)

\* diff_from: the "contents" test of a common path
contents_modified(new, old) ==
    LET d == file_delta(new, old)
    IN  (d.size \/ d.mtime_ns \/ d.cksum) /\ ~new.is_dir

\* a "metadata" test that leaves the size and the mtime of a directory out
metadata_modified_ids(new, old) ==
    LET d == file_delta(new, old)
    IN  d.uid \/ d.gid \/ d.mode

\* diff_from: the "metadata" test of a common path
metadata_modified(new, old) ==
    LET d == file_delta(new, old)
    IN  \/ (d.size \/ d.mtime_ns \/ d.cksum) /\ new.is_dir
        \/ d.uid \/ d.gid \/ d.mode

\* diff_from: the "regressed" test of a common, dirty path
is_regressed(new, old) == old.mtime_ns > new.mtime_ns

\* Manifest.diff_from: new is the goal state, old the state on disk.  The
\* lists are built from sets, so they are kept as sets: their order is
\* whatever the loops of sync() meet.
diff_from(new, old) ==
    LET common == DOMAIN new \cap DOMAIN old
        changed == {p \in common : delta_dirty(file_delta(new[p], old[p]))}
    IN  [added     |-> DOMAIN new \ DOMAIN old,
         deleted   |-> DOMAIN old \ DOMAIN new,
         contents  |-> {p \in changed : contents_modified(new[p], old[p])},
         metadata  |-> {p \in changed : metadata_modified(new[p], old[p])},
         unchanged |-> common \ changed,
         regressed |-> {p \in changed : is_regressed(new[p], old[p])}]

EmptyDiff ==
    [added |-> {}, deleted |-> {}, contents |-> {}, metadata |-> {},
     unchanged |-> {}, regressed |-> {}]

-----------------------------------------------------------------------------
(* The mutators of the transfer manifest.                                  *)

\* JSONSerDes.copy of an entry, "a value copy of our object": the entry is
\* written out and rebuilt field by field.  (What LocalFile.from_json_obj
\* reads back of the paths of an entry belongs to the serialization of
\* entries; the sync engine is followed here with the copy it asks for.)
copy(e) ==
    IF JSON_CLASSNAME(e) = "S3File"
    THEN \* S3File.from_json_obj makes the entry anew from an object summary
         [e EXCEPT !.uid = None, !.gid = None, !.mode = None, !.atime_ns = None]
    ELSE [is_dir |-> e.is_dir, size |-> e.size, mtime_ns |-> e.mtime_ns,
          cksum |-> e.cksum, cksum_type |-> e.cksum_type,
          uid |-> e.uid, gid |-> e.gid, mode |-> e.mode, atime_ns |-> e.atime_ns]

\* get_utime: (atime_ns, mtime_ns) of a LocalFile, the mtime twice of an S3File
get_utime(e) ==
    IF JSON_CLASSNAME(e) = "S3File"
    THEN <<e.mtime_ns, e.mtime_ns>> ELSE <<e.atime_ns, e.mtime_ns>>

\* JSONSerDes.copy of a manifest: a value copy of every entry
copy_manifest(m) == [p \in DOMAIN m |-> copy(m[p])]

\* LocalFile.mark_contents_transferred
mark_contents_transferred(e, src_lf) ==
    [e EXCEPT !.cksum_type = src_lf.cksum_type, !.cksum = src_lf.cksum,
              !.size = src_lf.size, !.mtime_ns = get_utime(src_lf)[2],
              !.atime_ns = get_utime(src_lf)[1]]

\* a mark_metadata_transferred that records nothing
mark_metadata_forgotten(e, src_lf) == e

\* LocalFile.mark_metadata_transferred
mark_metadata_transferred(e, src_lf) ==
    [e EXCEPT !.uid = src_lf.uid, !.gid = src_lf.gid, !.mode = src_lf.mode,
              !.mtime_ns = get_utime(src_lf)[2],
              !.atime_ns = get_utime(src_lf)[1]]

\* Manifest.mark_transferred
mark_transferred(m, rel_path, src_f) ==
    IF rel_path \in DOMAIN m
    THEN [m EXCEPT ![rel_path] = mark_contents_transferred(@, src_f)]
    ELSE Put(m, rel_path, copy(src_f))

\* a mark_deleted that leaves the entry in the manifest
mark_deleted_keeps(m, rel_path) == m

\* Manifest.mark_deleted (the caller has checked that rel_path is a key)
mark_deleted(m, rel_path) == Restrict(m, DOMAIN m \ {rel_path})

\* Manifest.mark_mkdir
mark_mkdir(m, rel_p, src_f) == mark_transferred(m, rel_p, src_f)

-----------------------------------------------------------------------------
(* The strategy primitives.  Each reads the state and gives its outcome:   *)
(* whether it returned (ok) or raised, and what it left behind.  A stage   *)
(* other than "ok" is the system call at which an I/O error strikes.       *)

Outcome(ok, tree, tmp, objs, xfer) ==
    [ok |-> ok, tree |-> tree, temps |-> tmp, store |-> objs, xfer |-> xfer]

Raise(tree, tmp) == Outcome(FALSE, tree, tmp, store, manifest_xfer)

\* creating, removing or renaming a name in directory d sets d's mtime
Touch(tree, d) ==
    IF d \in DOMAIN tree THEN [tree EXCEPT ![d].mtime_ns = Now] ELSE tree

\* the path itself and the directories above it, below the root
Prefixes(p) == {SubSeq(p, 1, i) : i \in 1..Len(p)}

\* SyncLocalToLocal._rm_file: os.rmdir or os.unlink, by the manifest's is_dir
LL_rm_file(rel_p, stage) ==
    LET present == rel_p \in DOMAIN dst_tree
        empty == /\ Children(dst_tree, rel_p) = {}
                 /\ {t \in temps : FsParent(t) = rel_p} = {}
        can == IF manifest_dst[rel_p].is_dir
               THEN present /\ dst_tree[rel_p].is_dir /\ empty
               ELSE present /\ ~dst_tree[rel_p].is_dir
    IN  IF stage # "ok" \/ ~can
        THEN Raise(dst_tree, temps)
        ELSE Outcome(TRUE,
                     Touch(Restrict(dst_tree, DOMAIN dst_tree \ {rel_p}),
                           FsParent(rel_p)),
                     temps, store, manifest_xfer)

\* SyncLocalToLocal._mkdir: os.makedirs(dst_path, exist_ok=True)
LL_mkdir(rel_p, stage) ==
    LET want == Prefixes(rel_p) \cup {Root}
        blocked == \E q \in want : q \in DOMAIN dst_tree /\ ~dst_tree[q].is_dir
        missing == want \ DOMAIN dst_tree
        made == [q \in DOMAIN dst_tree \cup missing |->
                   IF q \in missing
                   THEN DirNode(Now, ProcUid, ProcGid, MakedirsPerm)
                   ELSE IF \E m \in missing : m # Root /\ FsParent(m) = q
                        THEN [dst_tree[q] EXCEPT !.mtime_ns = Now]
                        ELSE dst_tree[q]]
    IN  IF stage # "ok" \/ blocked
        THEN Raise(dst_tree, temps)
        ELSE Outcome(TRUE, made, temps, store, manifest_xfer)

\* the temp file of _transfer_file: mkstemp(prefix=dst_path, dir="/") makes it
\* beside dst_path, so its directory has to be there
TempDirOk(rel_p) ==
    FsParent(rel_p) \in DOMAIN dst_tree /\ dst_tree[FsParent(rel_p)].is_dir

\* os.rename(dst_temp, dst_path) refuses to replace a directory
RenameOk(rel_p) == ~(rel_p \in DOMAIN dst_tree /\ dst_tree[rel_p].is_dir)

\* SyncLocalToLocal._transfer_file: mkstemp, shutil.copy, os.rename
LL_transfer_file(rel_p, stage) ==
    LET t1 == Touch(dst_tree, FsParent(rel_p))
        src_ok == rel_p \in DOMAIN src_tree /\ ~src_tree[rel_p].is_dir
    IN  IF stage = "mkstemp" \/ ~TempDirOk(rel_p)
        THEN Raise(dst_tree, temps)
        ELSE IF stage = "copy" \/ ~src_ok \/ ~RenameOk(rel_p)
        THEN Raise(t1, temps \cup {rel_p})
        ELSE Outcome(TRUE,
                     Put(t1, rel_p,
                         FileNode(src_tree[rel_p].data, Now, ProcUid, ProcGid,
                                  src_tree[rel_p].perm)),
                     temps, store, manifest_xfer)

\* SyncS3ToLocal._transfer_file: mkstemp, download_file, os.rename
S3L_transfer_file(rel_p, stage) ==
    LET t1 == Touch(dst_tree, FsParent(rel_p))
    IN  IF stage = "mkstemp" \/ ~TempDirOk(rel_p)
        THEN Raise(dst_tree, temps)
        ELSE IF stage = "copy" \/ rel_p \notin DOMAIN store \/ ~RenameOk(rel_p)
        THEN Raise(t1, temps \cup {rel_p})
        ELSE Outcome(TRUE,
                     Put(t1, rel_p,
                         FileNode(store[rel_p], Now, ProcUid, ProcGid, MkstempPerm)),
                     temps, store, manifest_xfer)

\* SyncLocalToS3._transfer_file: manifest_dst.upload_file(src_path, dst_path)
LS3_transfer_file(rel_p, stage) ==
    IF stage # "ok" \/ rel_p \notin DOMAIN src_tree \/ src_tree[rel_p].is_dir
    THEN Raise(dst_tree, temps)
    ELSE Outcome(TRUE, dst_tree, temps,
                 Put(store, rel_p, src_tree[rel_p].data), manifest_xfer)

\* os.chown, os.chmod, os.utime on dst_path, then the entry of xfer is marked
chown_chmod_utime(rel_p, stage, uid, gid, mode) ==
    LET src_f == manifest_src[rel_p]
        t1 == [dst_tree EXCEPT ![rel_p].uid = uid, ![rel_p].gid = gid]
        t2 == IF mode = None THEN t1 ELSE [t1 EXCEPT ![rel_p].perm = mode[2]]
        t3 == [t2 EXCEPT ![rel_p].mtime_ns = get_utime(src_f)[2],
                         ![rel_p].atime_ns = get_utime(src_f)[1]]
    IN  IF rel_p \notin DOMAIN dst_tree \/ stage = "chown"
        THEN Raise(dst_tree, temps)
        ELSE IF stage = "chmod" THEN Raise(t1, temps)
        ELSE IF stage = "utime" THEN Raise(t2, temps)
        ELSE Outcome(TRUE, t3, temps, store,
                     [manifest_xfer EXCEPT
                        ![rel_p] = mark_metadata_transferred(@, src_f)])

\* SyncLocalToLocal._transfer_metadata
LL_transfer_metadata(rel_p, stage) ==
    IF rel_p \notin DOMAIN manifest_src \/ rel_p \notin DOMAIN manifest_xfer
    THEN Raise(dst_tree, temps)
    ELSE chown_chmod_utime(rel_p, stage, manifest_src[rel_p].uid,
                           manifest_src[rel_p].gid, manifest_src[rel_p].mode)

\* SyncS3ToLocal._transfer_metadata: an unknown uid or gid is the process's,
\* an unknown mode is left alone
S3L_transfer_metadata(rel_p, stage) ==
    IF rel_p \notin DOMAIN manifest_src \/ rel_p \notin DOMAIN manifest_xfer
    THEN Raise(dst_tree, temps)
    ELSE LET src_f == manifest_src[rel_p]
         IN  chown_chmod_utime(rel_p, stage,
                               IF src_f.uid = None THEN ProcUid ELSE src_f.uid,
                               IF src_f.gid = None THEN ProcGid ELSE src_f.gid,
                               src_f.mode)

\* SyncLocalToS3._transfer_metadata: the metadata lives in the manifest
LS3_transfer_metadata(rel_p, stage) ==
    IF rel_p \notin DOMAIN manifest_src
    THEN Raise(dst_tree, temps)
    ELSE Outcome(TRUE, dst_tree, temps, store,
                 mark_transferred(manifest_xfer, rel_p, manifest_src[rel_p]))

\* SyncLocalToS3._rm_file and _mkdir do nothing
LS3_noop == Outcome(TRUE, dst_tree, temps, store, manifest_xfer)

_rm_file(rel_p, stage) ==
    IF strategy = "LS3" THEN LS3_noop ELSE LL_rm_file(rel_p, stage)

_mkdir(rel_p, stage) ==
    IF strategy = "LS3" THEN LS3_noop ELSE LL_mkdir(rel_p, stage)

_transfer_file(rel_p, stage) ==
    CASE strategy = "LL"  -> LL_transfer_file(rel_p, stage)
      [] strategy = "LS3" -> LS3_transfer_file(rel_p, stage)
      [] strategy = "S3L" -> S3L_transfer_file(rel_p, stage)

_transfer_metadata(rel_p, stage) ==
    CASE strategy = "LL"  -> LL_transfer_metadata(rel_p, stage)
      [] strategy = "LS3" -> LS3_transfer_metadata(rel_p, stage)
      [] strategy = "S3L" -> S3L_transfer_metadata(rel_p, stage)

\* where an I/O error can strike each primitive
FaultPoints(op) ==
    CASE op = "rm"    -> IF strategy = "LS3" THEN {} ELSE {"fail"}
      [] op = "mkdir" -> IF strategy = "LS3" THEN {} ELSE {"fail"}
      [] op = "xfer"  -> IF strategy = "LS3" THEN {"fail"} ELSE {"mkstemp", "copy"}
      [] op = "meta"  -> IF strategy = "LS3" THEN {} ELSE {"chown", "chmod", "utime"}

\* the ways one call of a primitive can go: faults counts the I/O errors that
\* may still strike
Stages(op) == IF faults > 0 THEN {"ok"} \cup FaultPoints(op) ELSE {"ok"}

-----------------------------------------------------------------------------
(* The operation wrappers of SyncStrategy.  Each gives the state it leaves *)
(* as a record; escaped names an exception that the wrapper lets through.  *)

Here ==
    [xfer |-> manifest_xfer, counters |-> counters, dirty |-> dirty,
     tree |-> dst_tree, temps |-> temps, store |-> store,
     calls |-> calls, raised |-> raised, escaped |-> None, faults |-> faults]

Count(c, k) == IF k \in DOMAIN c THEN c[k] ELSE 0

\* the primitive op was invoked on rel_p and ended with outcome o
Invoked(st, op, rel_p, stage, o) ==
    [st EXCEPT !.faults = IF stage = "ok" THEN @ ELSE @ - 1,
               !.tree = o.tree, !.temps = o.temps, !.store = o.store,
               !.calls = Put(st.calls, <<op, rel_p>>, Count(st.calls, <<op, rel_p>>) + 1),
               !.raised = IF o.ok THEN @ ELSE @ \cup {<<op, rel_p>>}]

\* self.manifest_xfer.mark_deleted(rel_p): del of a missing key is a KeyError
xfer_mark_deleted(st, rel_p) ==
    IF rel_p \in DOMAIN st.xfer
    THEN [st EXCEPT !.xfer = mark_deleted(@, rel_p)]
    ELSE [st EXCEPT !.escaped = "KeyError"]

\* rm_file, "except Execption as e": the name Execption is bound nowhere, so
\* matching the raised exception against it raises NameError; the handler's
\* body never runs and the NameError leaves rm_file and sync()
rm_file_except(st) == [st EXCEPT !.escaped = "NameError"]

\* SyncStrategy.rm_file
rm_file(rel_p, stage) ==
    IF enable_delete
    THEN LET o == _rm_file(rel_p, stage)
             st == Invoked([Here EXCEPT !.counters.rm = @ + 1], "rm", rel_p, stage, o)
         IN  IF o.ok THEN xfer_mark_deleted(st, rel_p) ELSE rm_file_except(st)
    ELSE xfer_mark_deleted([Here EXCEPT !.counters.delete_skipped = @ + 1], rel_p)

\* SyncStrategy.transfer_file
transfer_file(rel_p, stage) ==
    LET src_lf == manifest_src[rel_p]
    IN  IF ~src_lf.is_dir /\ ~dry_run
        THEN LET o == _transfer_file(rel_p, stage)
                 st == Invoked([Here EXCEPT !.counters.xfer = @ + 1], "xfer", rel_p, stage, o)
             IN  IF o.ok
                 THEN [st EXCEPT !.xfer = mark_transferred(o.xfer, rel_p, src_lf)]
                 ELSE [st EXCEPT !.dirty = TRUE]
        ELSE [Here EXCEPT !.xfer = mark_transferred(manifest_xfer, rel_p, src_lf)]

\* SyncStrategy.transfer_metadata
transfer_metadata(rel_p, stage) ==
    IF ~dry_run
    THEN LET o == _transfer_metadata(rel_p, stage)
             st == Invoked([Here EXCEPT !.counters.xfer_metadata = @ + 1],
                           "meta", rel_p, stage, o)
         IN  IF o.ok
             THEN [st EXCEPT !.xfer = mark_transferred(o.xfer, rel_p, manifest_src[rel_p])]
             ELSE [st EXCEPT !.dirty = TRUE]
    ELSE IF rel_p \in DOMAIN manifest_src
         THEN [Here EXCEPT !.xfer = mark_transferred(manifest_xfer, rel_p, manifest_src[rel_p])]
         ELSE [Here EXCEPT !.escaped = "KeyError"]

\* SyncStrategy.mkdir
mkdir(rel_p, stage) ==
    IF ~dry_run
    THEN LET o == _mkdir(rel_p, stage)
             st == Invoked([Here EXCEPT !.counters.mkdir = @ + 1], "mkdir", rel_p, stage, o)
         IN  IF o.ok
             THEN [st EXCEPT !.xfer = mark_mkdir(o.xfer, rel_p, manifest_src[rel_p])]
             ELSE [st EXCEPT !.dirty = TRUE]
    ELSE [Here EXCEPT !.xfer = mark_mkdir(manifest_xfer, rel_p, manifest_src[rel_p])]

-----------------------------------------------------------------------------
(* SyncStrategy.sync: six loops, run in this order.                        *)

\* a sync that deletes after it has created and transferred
Loops_deletes_late ==
    <<"mkdirs", "add_files", "contents", "deletes", "metadata", "replay">>

\* a sync that adds the files before it makes the directories
Loops_files_first ==
    <<"deletes", "add_files", "mkdirs", "contents", "metadata", "replay">>

\* a sync that runs the metadata-only pass before the changed contents
Loops_metadata_early ==
    <<"deletes", "mkdirs", "add_files", "metadata", "contents", "replay">>

\* a sync that replays the directories before the metadata-only pass
Loops_replay_early ==
    <<"deletes", "mkdirs", "add_files", "contents", "replay", "metadata">>

Loops == <<"deletes", "mkdirs", "add_files", "contents", "metadata", "replay">>

LoopIndex(name) == CHOOSE i \in 1..Len(Loops) : Loops[i] = name

\* a contents loop that holds nothing back
skip_nothing(rel_p, diff) == FALSE

\* the guard of the contents loop
skip_contents(rel_p, diff) ==
    rel_p \in diff.regressed /\ ~overwrite_regressed

\* the guard of the metadata loop: "rel_p and rel_p in regressed and not ..."
skip_metadata(rel_p, diff) ==
    rel_p # <<>> /\ rel_p \in diff.regressed /\ ~overwrite_regressed

\* a walk from a touched path that goes on to the root directory
walk_up_to_root(p_cur) ==
    IF p_cur = Root
    THEN {}
    ELSE {<<-n_comps(q), q>> : q \in Prefixes(p_cur) \ {p_cur}}
         \cup {<<-1, Root>>}

\* the "while p_cur and p_cur != '/'" walk from a touched path to the top
RECURSIVE walk_up(_)
walk_up(p_cur) ==
    IF p_cur = <<>>
    THEN {}
    ELSE LET up == dirname(p_cur)
         IN  (IF up # <<>> THEN {<<-n_comps(up), up>>} ELSE {}) \cup walk_up(up)

\* a sync that leaves the directories above a touched path as they are
ancestor_fixups_none(touched) == {}

\* "Recursively add parent directories to the fixup queue"
ancestor_fixups(touched) == UNION {walk_up(rel_p) : rel_p \in touched}

\* what loop i visits
LoopTodo(i, diff, fx) ==
    CASE Loops[i] = "deletes"   -> diff.deleted
      [] Loops[i] = "mkdirs"    -> {p \in diff.added : manifest_src[p].is_dir}
      [] Loops[i] = "add_files" -> {p \in diff.added : ~manifest_src[p].is_dir}
      [] Loops[i] = "contents"  -> {p \in diff.contents : ~skip_contents(p, diff)}
      [] Loops[i] = "metadata"  -> {p \in diff.metadata : ~skip_metadata(p, diff)}
      [] Loops[i] = "replay"    -> {f[2] : f \in {g \in fx : g[2] \notin diff.deleted}}

\* control reaches loop i: loops with nothing to visit are passed, and the
\* ancestors of the touched paths join dir_fixups before the replay
RECURSIVE Enter(_, _, _, _)
Enter(i, diff, touched, fx) ==
    IF i > Len(Loops)
    THEN [pc |-> "done", todo |-> {}, fx |-> fx]
    ELSE LET fx2 == IF Loops[i] = "replay" THEN fx \cup ancestor_fixups(touched) ELSE fx
             td == LoopTodo(i, diff, fx2)
         IN  IF td = {}
             THEN Enter(i + 1, diff, touched, fx2)
             ELSE [pc |-> Loops[i], todo |-> td, fx |-> fx2]

\* a replay that takes the directories in any order
replay_any(dirs) == dirs

\* sorted(list(dir_fixups)): the deepest directories come first (directories
\* of one depth follow in the order of their names, here: in any order)
replay_next(dirs) == {d \in dirs : \A e \in dirs : n_comps(e) <= n_comps(d)}

\* one wrapper call has ended in st; td, touched and fx are the loop's
\* variables after it, cur2 the path still waiting for its metadata
Step(st, td, touched, fx, cur2) ==
    /\ manifest_xfer' = st.xfer
    /\ counters' = st.counters
    /\ dirty' = st.dirty
    /\ dst_tree' = st.tree
    /\ temps' = st.temps
    /\ store' = st.store
    /\ calls' = st.calls
    /\ raised' = st.raised
    /\ escaped' = st.escaped
    /\ faults' = st.faults
    /\ IF st.escaped # None
       THEN /\ pc' = "crashed"
            /\ todo' = {}
            /\ cur' = None
            /\ UNCHANGED <<paths_touched, dir_fixups>>
       ELSE IF td # {} \/ cur2 # None
       THEN /\ pc' = pc
            /\ todo' = td
            /\ cur' = cur2
            /\ paths_touched' = touched
            /\ dir_fixups' = fx
       ELSE LET e == Enter(LoopIndex(pc) + 1, diff_state, touched, fx)
            IN  /\ pc' = e.pc
                /\ todo' = e.todo
                /\ cur' = None
                /\ paths_touched' = touched
                /\ dir_fixups' = e.fx
    /\ UNCHANGED manifest_fields
    /\ UNCHANGED <<strategy, dry_run, enable_delete, overwrite_regressed,
                   manifest_src, manifest_dst, diff_state, src_tree, run,
                   before, prev, saved_src, saved_dst>>

\* sync(): the diff is taken, then the loops start
SyncStart ==
    /\ pc = "start"
    /\ LET diff == diff_from(manifest_src, manifest_dst)
           e == Enter(1, diff, {}, {})
       IN  /\ diff_state' = diff
           /\ pc' = e.pc
           /\ todo' = e.todo
           /\ dir_fixups' = e.fx
    /\ UNCHANGED manifest_fields
    /\ UNCHANGED <<strategy, dry_run, enable_delete, overwrite_regressed,
                   manifest_src, manifest_dst, manifest_xfer, paths_touched,
                   counters, dirty, cur, src_tree, dst_tree, store, temps,
                   calls, raised, escaped, run, before, prev, saved_src,
                   saved_dst, faults>>

\* "for rel_p in deleted: rm_file(rel_p); paths_touched.append(rel_p)"
RmFile ==
    /\ pc = "deletes"
    /\ \E rel_p \in todo, stage \in Stages("rm") :
          Step(rm_file(rel_p, stage), todo \ {rel_p},
               paths_touched \cup {rel_p}, dir_fixups, None)

\* "for rel_p in added", directories: mkdir, append, dir_fixups.add
Mkdir ==
    /\ pc = "mkdirs"
    /\ \E rel_p \in todo, stage \in Stages("mkdir") :
          Step(mkdir(rel_p, stage), todo \ {rel_p},
               paths_touched \cup {rel_p},
               dir_fixups \cup {<<-n_comps(rel_p), rel_p>>}, None)

\* the transfer_file call of the add_files and contents loops
TransferFile ==
    /\ pc \in {"add_files", "contents"}
    /\ cur = None
    /\ \E rel_p \in todo, stage \in Stages("xfer") :
          Step(transfer_file(rel_p, stage), todo, paths_touched, dir_fixups, rel_p)

\* the transfer_metadata call that follows transfer_file, and the append
TransferMetadataOfFile ==
    /\ pc \in {"add_files", "contents"}
    /\ cur # None
    /\ \E stage \in Stages("meta") :
          Step(transfer_metadata(cur, stage), todo \ {cur},
               paths_touched \cup {cur}, dir_fixups, None)

\* "for rel_p in metadata: transfer_metadata(rel_p); append"
TransferMetadata ==
    /\ pc = "metadata"
    /\ \E rel_p \in todo, stage \in Stages("meta") :
          Step(transfer_metadata(rel_p, stage), todo \ {rel_p},
               paths_touched \cup {rel_p}, dir_fixups, None)

\* "for _, d in sorted(list(dir_fixups)): transfer_metadata(d)"
ReplayDirMetadata ==
    /\ pc = "replay"
    /\ \E d \in replay_next(todo), stage \in Stages("meta") :
          Step(transfer_metadata(d, stage), todo \ {d},
               paths_touched, dir_fixups, None)

SyncStep ==
    \/ SyncStart
    \/ RmFile
    \/ Mkdir
    \/ TransferFile
    \/ TransferMetadataOfFile
    \/ TransferMetadata
    \/ ReplayDirMetadata

-----------------------------------------------------------------------------
(* Construction.                                                           *)

ZeroCounters ==
    [rm |-> 0, delete_skipped |-> 0, xfer |-> 0, xfer_metadata |-> 0, mkdir |-> 0]

\* a constructor that leaves enable_delete as the caller gave it
ctor_keeps_enable_delete(opt_enable_delete, opt_dry_run) == opt_enable_delete

\* SyncStrategy.__init__: "if self.dry_run and self.enable_delete: ... = False"
ctor_enable_delete(opt_enable_delete, opt_dry_run) ==
    opt_enable_delete /\ ~opt_dry_run

\* SyncStrategy.__init__ on two manifests: the engine it builds
Construct(kind, m_src, m_dst, opt_dry_run, opt_enable_delete, opt_overwrite) ==
    [strategy |-> kind,
     dry_run |-> opt_dry_run,
     enable_delete |-> ctor_enable_delete(opt_enable_delete, opt_dry_run),
     overwrite_regressed |-> opt_overwrite,
     manifest_src |-> m_src,
     manifest_dst |-> m_dst,
     manifest_xfer |-> copy_manifest(m_dst),
     diff_state |-> EmptyDiff,
     counters |-> ZeroCounters,
     dirty |-> FALSE,
     pc |-> "start"]

\* the scenario starts with engine e
StartWith(e) ==
    /\ strategy = e.strategy
    /\ dry_run = e.dry_run
    /\ enable_delete = e.enable_delete
    /\ overwrite_regressed = e.overwrite_regressed
    /\ manifest_src = e.manifest_src
    /\ manifest_dst = e.manifest_dst
    /\ manifest_xfer = e.manifest_xfer
    /\ diff_state = e.diff_state
    /\ counters = e.counters
    /\ dirty = e.dirty
    /\ pc = e.pc
    /\ paths_touched = {}
    /\ dir_fixups = {}
    /\ todo = {}
    /\ cur = None
    /\ calls = << >>
    /\ raised = {}
    /\ escaped = None

\* the scenario goes on with a new engine e
GoOnWith(e) ==
    /\ strategy' = e.strategy
    /\ dry_run' = e.dry_run
    /\ enable_delete' = e.enable_delete
    /\ overwrite_regressed' = e.overwrite_regressed
    /\ manifest_src' = e.manifest_src
    /\ manifest_dst' = e.manifest_dst
    /\ manifest_xfer' = e.manifest_xfer
    /\ diff_state' = e.diff_state
    /\ counters' = e.counters
    /\ dirty' = e.dirty
    /\ pc' = e.pc
    /\ paths_touched' = {}
    /\ dir_fixups' = {}
    /\ todo' = {}
    /\ cur' = None
    /\ calls' = << >>
    /\ raised' = {}
    /\ escaped' = None

\* a manifest file: there is none, or it holds the entries of m
NoManifest == [exists |-> FALSE, entries |-> << >>]
Saved(m) == [exists |-> TRUE, entries |-> m]

\* the endpoints as a sync finds them
Endpoints(tree, objs, m_src, m_dst) ==
    [tree |-> tree, store |-> objs, saved_src |-> m_src, saved_dst |-> m_dst]

\* what a sync hands to the one after it
Returned ==
    [dirty |-> dirty, raised |-> raised, diff |-> diff_state,
     xfer |-> manifest_xfer, spent |-> MaxFaults - faults]

\* no sync has gone before
NothingReturned ==
    [dirty |-> FALSE, raised |-> {}, diff |-> EmptyDiff, xfer |-> << >>,
     spent |-> 0]

\* the owner of the trees that exist before the sync
SrcUid == "u1"
SrcGid == "g1"

SrcDirPerm == "0700"

\* what a path of the source tree can hold
SrcNodes ==
    {DirNode(SrcTime, SrcUid, SrcGid, SrcDirPerm),
     FileNode("x", SrcTime, SrcUid, SrcGid, "0644")}

\* what a path of the destination tree can hold before the sync
DstNodes ==
    {DirNode(t, SrcUid, SrcGid, SrcDirPerm) : t \in Times}
    \cup {FileNode(d, t, SrcUid, SrcGid, pm) :
             d \in Contents, t \in Times, pm \in FilePerms}

\* a local source, a local destination, fresh manifests of both
Init ==
    /\ src_tree \in TreesOver(SrcNodes)
    /\ dst_tree \in TreesOver(DstNodes)
    /\ store = << >>
    /\ temps = {}
    /\ run = 1
    /\ reserved_prefix = _default_metadata_path
    /\ pool = NoPool
    /\ s3 = NoListing
    /\ heap = << >>
    /\ selectors = {<<".">>}
    /\ disk = NoDisk
    /\ fs = NoFs
    /\ before = Endpoints(dst_tree, store, NoManifest, NoManifest)
    /\ prev = NothingReturned
    /\ saved_src = NoManifest
    /\ saved_dst = NoManifest
    /\ faults = MaxFaults
    /\ \E opt_dry_run, opt_enable_delete, opt_overwrite \in BOOLEAN :
          StartWith(Construct("LL", ManifestForPath(src_tree),
                              ManifestForPath(dst_tree),
                              opt_dry_run, opt_enable_delete, opt_overwrite))

Next == SyncStep

Spec == Init /\ [][Next]_vars

-----------------------------------------------------------------------------
(* Sync convergence.                                                       *)

\* diff(manifest(S), manifest(D')) over fresh manifests of the two trees
FreshDiff == diff_from(ManifestForPath(src_tree), ManifestForPath(dst_tree))

\* the fields in which the fresh entries of rel_p differ
FreshDelta(rel_p) ==
    delta(LocalFile(src_tree[rel_p]), LocalFile(dst_tree[rel_p]))

\* nothing is left to do, the mtime of the root directory aside
Converged ==
    /\ FreshDiff.added = {}
    /\ FreshDiff.deleted = {}
    /\ FreshDiff.contents = {}
    /\ FreshDiff.metadata \subseteq {Root}
    /\ Root \in FreshDiff.metadata =>
          LET d == FreshDelta(Root)
          IN  ~(d.size \/ d.cksum \/ d.uid \/ d.gid \/ d.mode)

\* a sync with deletion enabled has returned and no primitive has failed
CleanRun == pc = "done" /\ enable_delete /\ raised = {}

SameKinds ==
    \A p \in DOMAIN manifest_src \cap DOMAIN manifest_dst :
        manifest_src[p].is_dir = manifest_dst[p].is_dir

\* no path of the plan is held back by the regression guard
NothingHeldBack == overwrite_regressed \/ diff_state.regressed = {}

-----------------------------------------------------------------------------
(* Failures of the strategy primitives.                                    *)

Ended == pc \in {"done", "crashed"}

\* the only invocation of op on rel_p raised
FailedFor(op, rel_p) ==
    <<op, rel_p>> \in raised /\ Count(calls, <<op, rel_p>>) = 1

\* the plan the next sync would make from the returned xfer manifest
NextDiff == diff_from(manifest_src, manifest_xfer)

NextDiffLists(rel_p) ==
    rel_p \in NextDiff.added \cup NextDiff.deleted
              \cup NextDiff.contents \cup NextDiff.metadata

\* xfer does not show the failed op on rel_p as done
NotRecorded(op, rel_p) ==
    /\ NextDiffLists(rel_p)
    /\ op = "xfer" =>
          IF rel_p \in DOMAIN manifest_dst
          THEN /\ rel_p \in DOMAIN manifest_xfer
               /\ manifest_xfer[rel_p].size = manifest_dst[rel_p].size
               /\ manifest_xfer[rel_p].mtime_ns = manifest_dst[rel_p].mtime_ns
               /\ manifest_xfer[rel_p].cksum = manifest_dst[rel_p].cksum
          ELSE rel_p \notin DOMAIN manifest_xfer

\* C4: an operation whose primitive raised for p is not recorded in xfer:
\* when the sync has ended, xfer[p] is as the destination manifest had it
\* (or p is absent, if it was to be added) and the next diff still lists p
C4_FailedOpNotRecorded ==
    Ended =>
       \A op \in {"rm", "mkdir", "xfer", "meta"}, rel_p \in Paths :
          FailedFor(op, rel_p) => NotRecorded(op, rel_p)

\* C5: every exception of a primitive is consumed (the sync goes on, and
\* was_success() is false afterwards), and a sync in which no primitive
\* raises ends with was_success() true
C5_FailuresConsumed ==
    /\ raised # {} => escaped = None /\ dirty
    /\ raised = {} => ~dirty

-----------------------------------------------------------------------------
(* Dry run.                                                                *)

EndpointsUntouched ==
    dst_tree = before.tree /\ store = before.store /\ temps = {}

C7_DryRunKeepsXfer ==
    dry_run /\ pc = "done" => manifest_xfer = manifest_dst

-----------------------------------------------------------------------------
(* Delete gating and the regression guard.                                 *)

Removed(rel_p) == rel_p \in DOMAIN before.tree /\ rel_p \notin DOMAIN dst_tree

\* C9: _rm_file is invoked only with enable_delete on and dry_run off; with
\* enable_delete off no path of plan.deleted is removed; with enable_delete
\* on, a sync that has ended has attempted the removal of every path of
\* plan.deleted exactly once, and if no operation failed none of them is
\* left at the destination
C9_DeleteGating ==
    /\ \A rel_p \in Paths :
          Count(calls, <<"rm", rel_p>>) > 0 => enable_delete /\ ~dry_run
    /\ ~enable_delete => \A rel_p \in diff_state.deleted : ~Removed(rel_p)
    /\ enable_delete /\ Ended =>
          \A rel_p \in diff_state.deleted : Count(calls, <<"rm", rel_p>>) = 1
    /\ enable_delete /\ pc = "done" /\ raised = {} =>
          diff_state.deleted \cap DOMAIN dst_tree = {}

\* the regressed paths that are regular files in the source manifest
RegressedFiles == {p \in diff_state.regressed : ~manifest_src[p].is_dir}

\* rel_p was handed neither to _transfer_file nor to _transfer_metadata, and
\* its xfer entry is the one of the destination manifest
LeftAlone(rel_p) ==
    /\ Count(calls, <<"xfer", rel_p>>) = 0
    /\ Count(calls, <<"meta", rel_p>>) = 0
    /\ rel_p \in DOMAIN manifest_xfer
    /\ manifest_xfer[rel_p] = manifest_dst[rel_p]

\* rel_p went through transfer_file once and then through transfer_metadata
\* (a second time if the metadata list holds it too)
Transferred(rel_p) ==
    /\ Count(calls, <<"xfer", rel_p>>) = 1
    /\ Count(calls, <<"meta", rel_p>>) >= 1

RegressedPlainFiles == {p \in RegressedFiles : ~manifest_dst[p].is_dir}

-----------------------------------------------------------------------------
(* A second sync against the manifest the first one returned.              *)

\* Manifest.load of what Manifest.save wrote: every entry is written field
\* by field and rebuilt from the fields
load(m) == copy_manifest(m)

\* the returned xfer manifest is saved as the destination's manifest, and
\* the same source is synced against it, with nothing failing any more
Rerun ==
    /\ pc = "done"
    /\ run < MaxRuns
    /\ run' = run + 1
    /\ prev' = Returned
    /\ faults' = 0
    /\ saved_dst' = Saved(manifest_xfer)
    /\ before' = Endpoints(dst_tree, store, saved_src, saved_dst')
    /\ GoOnWith(Construct(strategy, manifest_src, load(manifest_xfer),
                          dry_run, enable_delete, overwrite_regressed))
    /\ UNCHANGED manifest_fields
    /\ UNCHANGED <<src_tree, dst_tree, store, temps, saved_src>>

InitRerun == Init /\ ~dry_run

NextRerun == SyncStep \/ Rerun

SpecRerun == InitRerun /\ [][NextRerun]_vars

\* the sync before this one was hit by I/O errors, and by nothing else
FaultsBefore ==
    /\ run > 1
    /\ prev.dirty
    /\ prev.raised # {}
    /\ Cardinality(prev.raised) = prev.spent

\* C3: after a sync in which an operation failed, the second sync against
\* the persisted xfer manifest, with the fault gone, attempts the failed
\* operation again, reports success and leaves the destination converged
C3_Recovery ==
    run = 2 /\ pc = "done" /\ FaultsBefore /\ enable_delete /\ overwrite_regressed =>
       /\ \A f \in prev.raised : Count(calls, f) > 0
       /\ ~dirty
       /\ Converged

-----------------------------------------------------------------------------
(* The round trip: a local tree is uploaded, the returned manifest is      *)
(* saved and loaded, and the bucket is synced into a fresh local directory.*)

\* what os.makedirs leaves at time t: the fresh directory of the download
FreshDir(t) == (Root :> DirNode(t, ProcUid, ProcGid, MakedirsPerm))

\* a tree uploaded to the bucket some time before
PriorTree ==
    (Root :> DirNode(SrcTime, SrcUid, SrcGid, SrcDirPerm))
    @@ (<<"a">> :> DirNode(SrcTime, SrcUid, SrcGid, SrcDirPerm))
    @@ (<<"a", "f">> :> FileNode("yy", SrcTime, SrcUid, SrcGid, "0600"))

\* the objects an upload of tree leaves in the bucket: one per regular file
Objects(tree) ==
    [p \in {q \in DOMAIN tree : ~tree[q].is_dir} |-> tree[p].data]

InitRoundTrip ==
    /\ src_tree \in TreesOver(DstNodes)
    /\ \E t \in Times : dst_tree = FreshDir(t)
    /\ temps = {}
    /\ run = 1
    /\ reserved_prefix = _default_metadata_path
    /\ pool = NoPool
    /\ s3 = NoListing
    /\ heap = << >>
    /\ selectors = {<<".">>}
    /\ disk = NoDisk
    /\ fs = NoFs
    /\ prev = NothingReturned
    /\ saved_src = NoManifest
    /\ faults = 0
    /\ \E prior \in {<< >>, PriorTree} :
          /\ store = Objects(prior)
          /\ saved_dst = IF prior = << >> THEN NoManifest
                         ELSE Saved(ManifestForPath(prior))
          /\ before = Endpoints(dst_tree, store, NoManifest, saved_dst)
          /\ \E opt_enable_delete, opt_overwrite \in BOOLEAN :
                StartWith(Construct("LS3", ManifestForPath(src_tree),
                                    ManifestForPath(prior),
                                    FALSE, opt_enable_delete, opt_overwrite))

\* m2p.save(); S3Manifest.load(); Manifest of the target directory;
\* SyncS3ToLocal(m_got, m_tgt)
Download ==
    /\ pc = "done"
    /\ strategy = "LS3"
    /\ run' = run + 1
    /\ prev' = Returned
    /\ saved_dst' = Saved(manifest_xfer)
    /\ before' = Endpoints(dst_tree, store, saved_src, saved_dst')
    /\ GoOnWith(Construct("S3L", load(manifest_xfer), ManifestForPath(dst_tree),
                          FALSE, enable_delete, overwrite_regressed))
    /\ UNCHANGED manifest_fields
    /\ UNCHANGED <<src_tree, dst_tree, store, temps, saved_src, faults>>

NextRoundTrip == SyncStep \/ Download

SpecRoundTrip == InitRoundTrip /\ [][NextRoundTrip]_vars

\* the upload found the bucket empty: it planned every path of A as added
UploadedAll ==
    prev.diff.added = DOMAIN src_tree /\ prev.diff.deleted = {}

\* C2: after the upload of A into an empty bucket and the download into a
\* fresh directory, a fresh manifest of A diffed against a fresh manifest of
\* the directory has empty added, deleted, contents and metadata
C2_RoundTrip ==
    strategy = "S3L" /\ pc = "done" /\ UploadedAll =>
       /\ FreshDiff.added = {}
       /\ FreshDiff.deleted = {}
       /\ FreshDiff.contents = {}
       /\ FreshDiff.metadata = {}

-----------------------------------------------------------------------------
(* CLIImpl.sync between two local directories.                             *)

\* every entry counts as changed
changed_from_always(new, old) == TRUE

\* LocalFile.changed_from without force_checksum
changed_from(new, old) ==
    \/ new.size # old.size
    \/ new.mtime_ns # old.mtime_ns
    \/ new.uid # old.uid
    \/ new.gid # old.gid
    \/ new.mode # old.mode
    \/ new.cksum # None /\ new.cksum # old.cksum

\* Manifest.update: keys that left the disk go, new keys come, and a common
\* key takes its fresh entry iff changed_from reports a change
update(m, tree) ==
    LET m_minimal == ManifestForPath(tree)
    IN  [p \in DOMAIN m_minimal |->
           IF p \in DOMAIN m /\ ~changed_from(m_minimal[p], m[p])
           THEN m[p]
           ELSE m_minimal[p]]

\* CLIImpl._load_manifest of a local path: the saved manifest, or a new one
\* of the directory if none is saved
_load_manifest(file, tree) ==
    IF file.exists THEN load(file.entries) ELSE ManifestForPath(tree)

\* Manifest.save: the metadata directory is made in the root if it is not
\* there yet, which is a new name in the root directory
save_touches(file, tree) == IF file.exists THEN tree ELSE Touch(tree, Root)

\* CLIImpl.sync up to the construction of the strategy: both manifests are
\* loaded, the source's is updated and (not in a dry run) saved; the
\* strategy gets dry_run and verbose, nothing else
CliStart ==
    /\ pc = "cli"
    /\ LET m_src == update(_load_manifest(saved_src, src_tree), src_tree)
           m_dst == _load_manifest(saved_dst, dst_tree)
       IN  /\ saved_src' = IF dry_run THEN saved_src ELSE Saved(m_src)
           /\ src_tree' = IF dry_run THEN src_tree
                          ELSE save_touches(saved_src, src_tree)
           /\ GoOnWith(Construct("LL", m_src, m_dst, dry_run, FALSE, FALSE))
    /\ UNCHANGED manifest_fields
    /\ UNCHANGED <<dst_tree, store, temps, run, before, prev, saved_dst, faults>>

\* "m_xfer = ss.sync(); m_xfer.save(overwrite=True); return ss"
CliSave ==
    /\ pc = "done"
    /\ pc' = "returned"
    /\ saved_dst' = Saved(manifest_xfer)
    /\ dst_tree' = save_touches(saved_dst, dst_tree)
    /\ UNCHANGED manifest_fields
    /\ UNCHANGED <<strategy, dry_run, enable_delete, overwrite_regressed,
                   manifest_src, manifest_dst, manifest_xfer, diff_state,
                   paths_touched, dir_fixups, counters, dirty, todo, cur,
                   src_tree, store, temps, calls, raised, escaped, run,
                   before, prev, saved_src, faults>>

\* the manifest files a directory can hold before the call: none, the
\* manifest of the directory as it is, or the manifest of an older tree
SavedBefore(tree) ==
    {NoManifest, Saved(ManifestForPath(tree)), Saved(ManifestForPath(PriorTree))}

InitCli ==
    /\ src_tree \in TreesOver(SrcNodes)
    /\ dst_tree \in TreesOver(DstNodes)
    /\ store = << >>
    /\ temps = {}
    /\ run = 1
    /\ reserved_prefix = _default_metadata_path
    /\ pool = NoPool
    /\ s3 = NoListing
    /\ heap = << >>
    /\ selectors = {<<".">>}
    /\ disk = NoDisk
    /\ fs = NoFs
    /\ prev = NothingReturned
    /\ faults = 0
    /\ saved_src \in SavedBefore(src_tree)
    /\ saved_dst \in SavedBefore(dst_tree)
    /\ before = Endpoints(dst_tree, store, saved_src, saved_dst)
    /\ \E opt_dry_run \in BOOLEAN :
          StartWith([Construct("LL", << >>, << >>, opt_dry_run, FALSE, FALSE)
                       EXCEPT !.pc = "cli"])

NextCli == CliStart \/ SyncStep \/ CliSave

SpecCli == InitCli /\ [][NextCli]_vars

\* C8: a dry run through CLIImpl.sync transfers no file and leaves the
\* directories and the manifest files of both ends as they were
C8_CliDryRunWritesNothing ==
    dry_run =>
       /\ EndpointsUntouched
       /\ saved_src = before.saved_src
       /\ saved_dst = before.saved_dst
       /\ \A rel_p \in Paths : Count(calls, <<"xfer", rel_p>>) = 0

-----------------------------------------------------------------------------
(* The transfer manifest as the goal state.                                *)

\* a sync that was no dry run has returned, no primitive has failed and the
\* regression guard has held back no path
CleanRealRun == pc = "done" /\ ~dry_run /\ raised = {} /\ NothingHeldBack

-----------------------------------------------------------------------------
(* Idempotence of the sync.                                                *)

\* the sync before this one returned with was_success() true
SuccessBefore == run > 1 /\ ~prev.dirty /\ prev.raised = {}

\* this sync has invoked no primitive, has counted nothing and, once it has
\* returned, hands back a manifest equal to the source manifest
NothingToDo ==
    /\ calls = << >>
    /\ counters = ZeroCounters
    /\ pc = "done" => manifest_xfer = manifest_src

NothingHeldBackBefore == overwrite_regressed \/ prev.diff.regressed = {}

-----------------------------------------------------------------------------
(* The order of the operations of one sync, followed on trees with a       *)
(* second entry in the root, so that one sync can delete, create and       *)
(* transfer several paths.                                                 *)

WidePaths == Paths \cup {<<"b">>}

\* the destination was written some time before the source
OlderTime == SrcTime - 1

OlderNodes ==
    {DirNode(OlderTime, SrcUid, SrcGid, SrcDirPerm),
     FileNode("yy", OlderTime, SrcUid, SrcGid, "0644")}

InitOrder ==
    /\ src_tree \in TreesOn(WidePaths, SrcNodes)
    /\ dst_tree \in TreesOn(WidePaths, OlderNodes)
    /\ store = << >>
    /\ temps = {}
    /\ run = 1
    /\ reserved_prefix = _default_metadata_path
    /\ pool = NoPool
    /\ s3 = NoListing
    /\ heap = << >>
    /\ selectors = {<<".">>}
    /\ disk = NoDisk
    /\ fs = NoFs
    /\ before = Endpoints(dst_tree, store, NoManifest, NoManifest)
    /\ prev = NothingReturned
    /\ saved_src = NoManifest
    /\ saved_dst = NoManifest
    /\ faults = MaxFaults
    /\ \E opt_enable_delete \in BOOLEAN :
          StartWith(Construct("LL", ManifestForPath(src_tree),
                              ManifestForPath(dst_tree),
                              FALSE, opt_enable_delete, FALSE))

NextOrder == SyncStep

SpecOrder == InitOrder /\ [][NextOrder]_vars

\* on how many paths the primitive op has been invoked so far
Invocations(c, op) ==
    Cardinality({k \in DOMAIN c : k[1] = op})

\* this step invokes the primitive op on rel_p
Invokes(op, rel_p) == Count(calls', <<op, rel_p>>) > Count(calls, <<op, rel_p>>)

\* C13: every invocation of the remove primitive comes before the first
\* invocation of mkdir or of transfer_content: a step that invokes remove
\* starts where neither has been invoked yet
C13_DeletesFirst ==
    [][(\E rel_p \in WidePaths : Invokes("rm", rel_p)) =>
          Invocations(calls, "mkdir") = 0 /\ Invocations(calls, "xfer") = 0]_vars

\* a sync removed a path and then made a directory or transferred a file
C13_Witness ==
    /\ pc = "done"
    /\ Invocations(calls, "rm") > 0
    /\ \E rel_p \in diff_state.deleted : Removed(rel_p)
    /\ \E rel_p \in diff_state.added : rel_p \in DOMAIN dst_tree
    /\ Invocations(calls, "mkdir") + Invocations(calls, "xfer") > 0

\* no invocation of the mkdir primitive has raised
NoMkdirFailed == {k \in raised : k[1] = "mkdir"} = {}

\* the directory that is to hold rel_p is there at the destination
ParentIsThere(rel_p) ==
    FsParent(rel_p) \in DOMAIN dst_tree /\ dst_tree[FsParent(rel_p)].is_dir

MetadataInvoked == {rel_p \in WidePaths : Count(calls, <<"meta", rel_p>>) > 0}

\* C15 as stated: no transfer_metadata invocation precedes a
\* transfer_content invocation
C15_AsStated ==
    [][(\E rel_p \in WidePaths : Invokes("xfer", rel_p)) =>
          MetadataInvoked = {}]_vars

\* rel_p is a regular file whose content this sync has already transferred
\* in the pass over the added files or over the changed contents
FileDoneBefore(rel_p) ==
    /\ ~manifest_src[rel_p].is_dir
    /\ rel_p \in diff_state.added \cup diff_state.contents
    /\ Count(calls, <<"xfer", rel_p>>) > 0

\* C15, amended: the metadata-only pass and the replay of directory
\* metadata come after all content transfers: when transfer_content(p) is
\* invoked, transfer_metadata has been invoked for no directory and not for
\* p, only for regular files whose own content was transferred before
C15_MetadataAfterContents ==
    [][\A rel_p \in WidePaths :
          Invokes("xfer", rel_p) =>
             /\ rel_p \notin MetadataInvoked
             /\ \A q \in MetadataInvoked : FileDoneBefore(q)]_vars

\* a sync transferred two files, each followed by its metadata, and then
\* restored the metadata of a directory
C15_Witness ==
    /\ pc = "done"
    /\ Invocations(calls, "xfer") > 1
    /\ \E q \in MetadataInvoked : manifest_src[q].is_dir
    /\ \A q \in WidePaths :
          Count(calls, <<"xfer", q>>) > 0 => q \in MetadataInvoked

\* the directories the replay is to visit: dir_fixups without plan.deleted
ReplaySet == {f[2] : f \in dir_fixups} \ diff_state.deleted

\* C16: the replay of directory metadata is deepest-first and leaves out
\* plan.deleted: when the replay invokes transfer_metadata(d1), d1 is not in
\* plan.deleted and every directory of the replay with more path components
\* than d1 has had its transfer_metadata before
C16_DeepestFirst ==
    [][\A d1 \in WidePaths :
          pc = "replay" /\ Invokes("meta", d1) =>
             /\ d1 \notin diff_state.deleted
             /\ d1 \in ReplaySet
             /\ \A d2 \in ReplaySet :
                   n_comps(d2) > n_comps(d1) =>
                      d2 \notin todo /\ Count(calls, <<"meta", d2>>) > 0]_vars

\* a sync replayed the directory a/f and the directory a above it, and
\* deleted a path besides
C16_Witness ==
    /\ pc = "done"
    /\ {<<"a">>, <<"a", "f">>} \subseteq ReplaySet
    /\ Count(calls, <<"meta", <<"a">>>>) > 0
    /\ Count(calls, <<"meta", <<"a", "f">>>>) > 0
    /\ diff_state.deleted # {}

-----------------------------------------------------------------------------
(* The root directory.                                                     *)

RootDisturbed ==
    /\ pc = "done"
    /\ Count(calls, <<"meta", Root>>) = 0
    /\ dst_tree[Root] # before.tree[Root]

-----------------------------------------------------------------------------
(* The manifest of one directory: population, update and diff.  Here       *)
(* src_tree is the directory, manifest_dst the manifest m that was         *)
(* populated from it and is updated later, manifest_src the manifest built *)
(* afresh for a diff, manifest_xfer the snapshot or copy of m last taken,  *)
(* before.tree the directory as m last saw it, and dst_tree the directory *)
(* as it was when m was populated.                                         *)

\* LocalFile._md5: the digest of a file's content
_md5(data) == "md5:" \o data

\* Manifest.run_selectors: an entry per path of the walk, and with
\* do_checksum the digest of every entry that is not a directory
run_selectors(tree, do_checksum) ==
    [p \in DOMAIN tree |->
        IF do_checksum /\ ~tree[p].is_dir
        THEN [LocalFile(tree[p]) EXCEPT !.cksum = _md5(tree[p].data)]
        ELSE LocalFile(tree[p])]

\* the attributes LocalFile.__init__ sets, which are the keys of vars(self):
\* LocalFile has no to_json_obj of its own
to_json_obj_keys ==
    {"_json_classname", "rel_path", "path", "cksum", "cksum_type", "is_dir",
     "collected", "size", "mtime_ns", "metadata"}

\* the keys LocalFile.from_json_obj reads of the object it is given
from_json_obj_keys ==
    {"_json_classname", "size", "mtime_ns", "metadata", "root_path",
     "rel_path", "cksum", "cksum_type", "is_dir", "collected"}

\* JSONSerDes.copy as the code runs it, from_json_obj(to_json_obj()): the
\* keys whose lookup raises KeyError
copy_KeyErrors == from_json_obj_keys \ to_json_obj_keys

\* a file of the directory is read: only its atime moves
Accessed(node) == [node EXCEPT !.atime_ns = node.mtime_ns + 1]

\* what a path of the directory can hold: a directory with one of two
\* mtimes, a file with one of three contents (two of them of the same size),
\* a file that has the third content with one of two mtimes and one of
\* three pairs of owner and permissions (the group is the same everywhere),
\* or that file after it has been read
ManifestNodes ==
    {DirNode(t, SrcUid, SrcGid, SrcDirPerm) : t \in {SrcTime - 1, SrcTime}}
    \cup {FileNode(d, SrcTime, SrcUid, SrcGid, "0644") : d \in {"x", "yy", "zz"}}
    \cup {FileNode("zz", t, o[1], SrcGid, o[2]) :
             t \in {SrcTime - 1, SrcTime},
             o \in {<<SrcUid, "0644">>, <<SrcUid, "0600">>, <<ProcUid, "0644">>}}
    \cup {Accessed(FileNode("zz", SrcTime, SrcUid, SrcGid, "0644"))}

\* the states of the directory: the directory itself and one name in it,
\* which is a file, a directory or absent
ManifestTrees == TreesOn({Root, <<"a">>}, ManifestNodes)

\* Manifest.for_path(root, do_checksum) of a directory; nothing is diffed yet
InitManifest ==
    /\ src_tree \in ManifestTrees
    /\ dst_tree = src_tree
    /\ store = << >>
    /\ temps = {}
    /\ run = 1
    /\ reserved_prefix = _default_metadata_path
    /\ pool = NoPool
    /\ s3 = NoListing
    /\ heap = << >>
    /\ selectors = {<<".">>}
    /\ disk = NoDisk
    /\ fs = NoFs
    /\ before = Endpoints(src_tree, store, NoManifest, NoManifest)
    /\ prev = NothingReturned
    /\ saved_src = NoManifest
    /\ saved_dst = NoManifest
    /\ faults = 0
    /\ \E do_checksum \in BOOLEAN :
          LET m == run_selectors(src_tree, do_checksum)
          IN  StartWith([strategy |-> None, dry_run |-> FALSE,
                         enable_delete |-> FALSE, overwrite_regressed |-> FALSE,
                         manifest_src |-> m, manifest_dst |-> m,
                         manifest_xfer |-> m, diff_state |-> EmptyDiff,
                         counters |-> ZeroCounters, dirty |-> FALSE,
                         pc |-> "populated"])

\* files are written, removed, chmod-ed or touched behind the manifest's back
DirectoryChanges ==
    /\ run < MaxRuns
    /\ run' = run + 1
    /\ src_tree' \in ManifestTrees \ {src_tree}
    /\ pc' = "changed"
    /\ UNCHANGED manifest_fields
    /\ UNCHANGED <<strategy, dry_run, enable_delete, overwrite_regressed,
                   manifest_src, manifest_dst, manifest_xfer, diff_state,
                   paths_touched, dir_fixups, counters, dirty, todo, cur,
                   dst_tree, store, temps, calls, raised, escaped, before,
                   prev, saved_src, saved_dst, faults>>

\* m.update(): the snapshot of m is kept in manifest_xfer
Update ==
    /\ escaped = None
    /\ manifest_xfer' = manifest_dst
    /\ manifest_dst' = update(manifest_dst, src_tree)
    /\ before' = Endpoints(src_tree, store, NoManifest, NoManifest)
    /\ pc' = "updated"
    /\ UNCHANGED manifest_fields
    /\ UNCHANGED <<strategy, dry_run, enable_delete, overwrite_regressed,
                   manifest_src, diff_state, paths_touched, dir_fixups,
                   counters, dirty, todo, cur, src_tree, dst_tree, store,
                   temps, calls, raised, escaped, run, prev, saved_src,
                   saved_dst, faults>>

\* a recomputation that leaves the entry as it is
recompute_checksum_skipped(e, node) == e

\* LocalFile.recompute_checksum: the digest of the file as it is on disk
recompute_checksum(e, node) ==
    IF e.is_dir THEN e ELSE [e EXCEPT !.cksum = _md5(node.data)]

\* LocalFile.changed_from with force_checksum, as it leaves self: the digest
\* is recomputed unless the quick check of size, mtime_ns, uid, gid and mode
\* has returned before
force_checksum(new, old, node) ==
    IF \/ new.size # old.size \/ new.mtime_ns # old.mtime_ns
       \/ new.uid # old.uid \/ new.gid # old.gid \/ new.mode # old.mode
    THEN new
    ELSE recompute_checksum(new, node)

\* Manifest.update(force_checksum=True): the entry that takes the place of a
\* changed one is the fresh entry as changed_from left it
update_force_checksum(m, tree) ==
    LET m_minimal == ManifestForPath(tree)
    IN  [p \in DOMAIN m_minimal |->
           IF p \notin DOMAIN m
           THEN m_minimal[p]
           ELSE LET lf_new == force_checksum(m_minimal[p], m[p], tree[p])
                IN  IF changed_from(lf_new, m[p]) THEN lf_new ELSE m[p]]

\* m.update(force_checksum=True)
UpdateForceChecksum ==
    /\ escaped = None
    /\ manifest_xfer' = manifest_dst
    /\ manifest_dst' = update_force_checksum(manifest_dst, src_tree)
    /\ before' = Endpoints(src_tree, store, NoManifest, NoManifest)
    /\ pc' = "updated_force_checksum"
    /\ UNCHANGED manifest_fields
    /\ UNCHANGED <<strategy, dry_run, enable_delete, overwrite_regressed,
                   manifest_src, diff_state, paths_touched, dir_fixups,
                   counters, dirty, todo, cur, src_tree, dst_tree, store,
                   temps, calls, raised, escaped, run, prev, saved_src,
                   saved_dst, faults>>

\* m_new = Manifest.for_path(root, do_checksum); m_new.diff_from(m)
DiffFrom ==
    /\ escaped = None
    /\ \E do_checksum \in BOOLEAN :
          manifest_src' = run_selectors(src_tree, do_checksum)
    /\ diff_state' = diff_from(manifest_src', manifest_dst)
    /\ pc' = "diffed"
    /\ UNCHANGED manifest_fields
    /\ UNCHANGED <<strategy, dry_run, enable_delete, overwrite_regressed,
                   manifest_dst, manifest_xfer, paths_touched, dir_fixups,
                   counters, dirty, todo, cur, src_tree, dst_tree, store,
                   temps, calls, raised, escaped, run, before, prev,
                   saved_src, saved_dst, faults>>

\* m.diff_from(m.copy()): the copy of the first entry raises if
\* from_json_obj asks for a key that to_json_obj did not write
DiffCopy ==
    /\ escaped = None
    /\ IF copy_KeyErrors # {}
       THEN /\ escaped' = "KeyError"
            /\ pc' = "crashed"
            /\ UNCHANGED <<manifest_src, manifest_xfer, diff_state>>
       ELSE /\ escaped' = None
            /\ manifest_xfer' = copy_manifest(manifest_dst)
            /\ manifest_src' = manifest_dst
            /\ diff_state' = diff_from(manifest_dst, manifest_xfer')
            /\ pc' = "diffed_copy"
    /\ UNCHANGED manifest_fields
    /\ UNCHANGED <<strategy, dry_run, enable_delete, overwrite_regressed,
                   manifest_dst, paths_touched, dir_fixups, counters, dirty,
                   todo, cur, src_tree, dst_tree, store, temps, calls, raised,
                   run, before, prev, saved_src, saved_dst, faults>>

NextManifest ==
    DirectoryChanges \/ Update \/ UpdateForceChecksum \/ DiffFrom \/ DiffCopy

SpecManifest == InitManifest /\ [][NextManifest]_vars

-----------------------------------------------------------------------------
(* The diff of a manifest with its copy.                                   *)

\* m.diff_from(m.copy()) has been called
DiffCopyCalled == pc \in {"diffed_copy", "crashed"}

\* nothing differs, and every key of m is listed as unchanged
NoChanges(diff, m) ==
    /\ diff.added = {} /\ diff.deleted = {}
    /\ diff.contents = {} /\ diff.metadata = {} /\ diff.regressed = {}
    /\ diff.unchanged = DOMAIN m

\* C18: for any manifest m, diff(m, m.copy()) returns a diff with empty
\* added, deleted, contents, metadata and regressed, in which every key of m
\* is listed in unchanged
C18_DiffOfCopy ==
    DiffCopyCalled => escaped = None /\ NoChanges(diff_state, manifest_dst)

\* the diff of a manifest with a value copy of it, which is what copy() is
\* documented to return, shows no changes
DiffOfValueCopy ==
    NoChanges(diff_from(manifest_dst, copy_manifest(manifest_dst)), manifest_dst)

-----------------------------------------------------------------------------
(* The classification of the paths that both manifests hold.               *)

\* m_new.diff_from(m) has returned
Diffed == pc = "diffed"

CommonPaths == DOMAIN manifest_src \cap DOMAIN manifest_dst

\* a path is on the list named by each k of lists and on no other list
OnExactly(rel_p, lists) ==
    \A k \in {"contents", "metadata", "unchanged", "regressed"} :
        rel_p \in diff_state[k] <=> k \in lists

SizeOrMtimeDiffers(new, old) ==
    new.size # old.size \/ new.mtime_ns # old.mtime_ns

OwnerOrModeDiffers(new, old) ==
    new.uid # old.uid \/ new.gid # old.gid \/ new.mode # old.mode

\* the lists a common path belongs on when the test of "contents" is differs
Classified(rel_p, differs) ==
    LET new == manifest_src[rel_p]
        old == manifest_dst[rel_p]
    IN  IF ~delta_dirty(delta(new, old))
        THEN OnExactly(rel_p, {"unchanged"})
        ELSE OnExactly(rel_p,
                 (IF ~new.is_dir /\ differs THEN {"contents"} ELSE {})
                 \cup (IF \/ OwnerOrModeDiffers(new, old)
                          \/ new.is_dir /\ SizeOrMtimeDiffers(new, old)
                       THEN {"metadata"} ELSE {})
                 \cup (IF new.mtime_ns < old.mtime_ns
                       THEN {"regressed"} ELSE {}))

\* C19 as stated: a common path with a clean delta is only in unchanged;
\* otherwise it is in contents iff the new entry is not a directory and
\* size, mtime_ns or cksum differs, in metadata iff uid, gid or mode differs
\* or size/mtime_ns differs on a directory, and in regressed iff the new
\* mtime_ns is strictly older than the old one
C19_AsStated ==
    Diffed =>
       \A rel_p \in CommonPaths :
          Classified(rel_p,
              \/ SizeOrMtimeDiffers(manifest_src[rel_p], manifest_dst[rel_p])
              \/ manifest_src[rel_p].cksum # manifest_dst[rel_p].cksum)

\* C19, amended: the delta of diff_from does not compare digests.  A common
\* path whose entries agree in size, mtime_ns, uid, gid and mode is only in
\* unchanged, whatever their digests; otherwise it is not in unchanged, it
\* is in contents iff the new entry is not a directory and size or mtime_ns
\* differs, in metadata iff uid, gid or mode differs or size/mtime_ns
\* differs on a directory, and in regressed iff the new mtime_ns is strictly
\* older than the old one
C19_Classification ==
    Diffed =>
       \A rel_p \in CommonPaths :
          LET new == manifest_src[rel_p]
              old == manifest_dst[rel_p]
          IN  /\ Classified(rel_p, SizeOrMtimeDiffers(new, old))
              /\ delta_dirty(delta(new, old)) <=>
                    SizeOrMtimeDiffers(new, old) \/ OwnerOrModeDiffers(new, old)

\* a diff in which the file has another digest and other permissions but
\* its size and mtime_ns, and is listed under metadata only, while the
\* directory went back in time and is listed under metadata and regressed
C19_Witness ==
    /\ Diffed
    /\ CommonPaths = {Root, <<"a">>}
    /\ manifest_src[<<"a">>].cksum # None
    /\ manifest_dst[<<"a">>].cksum # None
    /\ manifest_src[<<"a">>].cksum # manifest_dst[<<"a">>].cksum
    /\ <<"a">> \in diff_state.metadata \ diff_state.contents
    /\ Root \in diff_state.metadata \cap diff_state.regressed
    /\ Root \notin diff_state.contents

-----------------------------------------------------------------------------
(* update() of a manifest whose directory has not changed.                 *)

-----------------------------------------------------------------------------
(* What update() does to each key.                                         *)

\* update() has returned; manifest_xfer is the manifest as it was before
Updated == pc \in {"updated", "updated_force_checksum"}

Forced == pc = "updated_force_checksum"

\* the entry a fresh walk gives to rel_p
Fresh(rel_p) == LocalFile(src_tree[rel_p])

\* the fresh entry differs from the prior one in size, mtime_ns, uid, gid or mode
StatDiffers(rel_p) ==
    LET new == Fresh(rel_p)
        old == manifest_xfer[rel_p]
    IN  \/ new.size # old.size \/ new.mtime_ns # old.mtime_ns
        \/ new.uid # old.uid \/ new.gid # old.gid \/ new.mode # old.mode

\* the file's digest on disk is not the one the prior entry carries
DigestDiffers(rel_p) ==
    /\ ~src_tree[rel_p].is_dir
    /\ _md5(src_tree[rel_p].data) # manifest_xfer[rel_p].cksum

\* the key set is that of a fresh walk, and a key that was not in the prior
\* manifest has the fresh entry
KeysOfWalk ==
    /\ DOMAIN manifest_dst = DOMAIN src_tree
    /\ \A rel_p \in DOMAIN manifest_dst \ DOMAIN manifest_xfer :
          manifest_dst[rel_p] = Fresh(rel_p)

\* C21 as stated: after update() the keys are those of a fresh walk, and a
\* key present before and after holds the fresh digest-less entry iff size,
\* mtime_ns, uid, gid or mode differs, or the digest when force_checksum is
\* set; otherwise it holds the prior entry
C21_AsStated ==
    Updated =>
       /\ KeysOfWalk
       /\ \A rel_p \in DOMAIN manifest_dst \cap DOMAIN manifest_xfer :
             manifest_dst[rel_p] =
                IF StatDiffers(rel_p) \/ (Forced /\ DigestDiffers(rel_p))
                THEN Fresh(rel_p)
                ELSE manifest_xfer[rel_p]

\* C21, amended: after update() the keys are those of a fresh walk; a key
\* present before and after holds the fresh digest-less entry if size,
\* mtime_ns, uid, gid or mode differs; if none of them differs, it holds the
\* fresh entry with the digest just computed when force_checksum is set and
\* that digest is not the prior entry's; otherwise it holds the prior entry,
\* with its digest and its atime_ns
C21_UpdateByKey ==
    Updated =>
       /\ KeysOfWalk
       /\ \A rel_p \in DOMAIN manifest_dst \cap DOMAIN manifest_xfer :
             manifest_dst[rel_p] =
                IF StatDiffers(rel_p)
                THEN Fresh(rel_p)
                ELSE IF Forced /\ DigestDiffers(rel_p)
                THEN [Fresh(rel_p) EXCEPT !.cksum = _md5(src_tree[rel_p].data)]
                ELSE manifest_xfer[rel_p]

\* an update with force_checksum has replaced the entry of the directory,
\* whose mtime_ns had changed, by a fresh one, and the entry of the file,
\* which had another content of the same size and mtime_ns, by a fresh one
\* that carries the new digest
C21_Witness ==
    /\ Forced
    /\ DOMAIN manifest_xfer = {Root, <<"a">>}
    /\ DOMAIN manifest_dst = {Root, <<"a">>}
    /\ StatDiffers(Root)
    /\ manifest_dst[Root] # manifest_xfer[Root]
    /\ ~StatDiffers(<<"a">>)
    /\ manifest_xfer[<<"a">>].cksum # None
    /\ manifest_dst[<<"a">>].cksum # None
    /\ manifest_dst[<<"a">>].cksum # manifest_xfer[<<"a">>].cksum

\* an update has kept the entry of a file that had only been read since
AtimeOnlyKept ==
    /\ Updated
    /\ <<"a">> \in DOMAIN manifest_dst \cap DOMAIN manifest_xfer
    /\ Fresh(<<"a">>).atime_ns # manifest_xfer[<<"a">>].atime_ns
    /\ manifest_dst[<<"a">>] = manifest_xfer[<<"a">>]

-----------------------------------------------------------------------------
(* Reserved paths.  A manifest keeps its metadata directory out of its     *)
(* entries.  Here src_tree is the directory of the manifest, metadata      *)
(* directories included, manifest_dst the manifest and reserved_prefix     *)
(* the place of its metadata directory below the root.                     *)

\* Manifest.is_reserved_path: rel_path is the metadata directory or lies in it
is_reserved_path(prefix, rel_path) ==
    /\ prefix # << >>
    /\ Len(rel_path) >= Len(prefix)
    /\ SubSeq(rel_path, 1, Len(prefix)) = prefix

\* Manifest.__init__: the metadata directory is the default one, another
\* directory of the root, or (<< >>) a directory outside the root
MetadataPaths == {_default_metadata_path, <<"meta">>, << >>}

\* the directory: a name of its own, and the metadata directories with
\* their manifest files, as earlier saves have left them
ReservedTrees ==
    TreesOn({Root, <<"a">>} \cup
            UNION {{d, d \o <<"manifest">>} : d \in MetadataPaths \ {<< >>}},
            SrcNodes)

\* what a walk with this prefix yields: reserved paths are skipped
Walked(tree, prefix) ==
    Restrict(tree, {p \in DOMAIN tree : ~is_reserved_path(prefix, p)})

\* Manifest(root=root, path=path): no entries yet
InitReserved ==
    /\ src_tree \in ReservedTrees
    /\ dst_tree = src_tree
    /\ store = << >>
    /\ temps = {}
    /\ run = 0
    /\ reserved_prefix \in MetadataPaths
    /\ pool = NoPool
    /\ s3 = NoListing
    /\ heap = << >>
    /\ selectors = {}
    /\ disk = NoDisk
    /\ fs = NoFs
    /\ before = Endpoints(src_tree, store, NoManifest, NoManifest)
    /\ prev = NothingReturned
    /\ saved_src = NoManifest
    /\ saved_dst = NoManifest
    /\ faults = 0
    /\ StartWith([strategy |-> None, dry_run |-> FALSE,
                  enable_delete |-> FALSE, overwrite_regressed |-> FALSE,
                  manifest_src |-> << >>, manifest_dst |-> << >>,
                  manifest_xfer |-> << >>, diff_state |-> EmptyDiff,
                  counters |-> ZeroCounters, dirty |-> FALSE,
                  pc |-> "constructed"])

ReservedUnchanged ==
    /\ UNCHANGED <<strategy, dry_run, enable_delete, overwrite_regressed,
                manifest_src, manifest_xfer, diff_state, paths_touched,
                dir_fixups, counters, dirty, todo, cur, src_tree, dst_tree,
                store, temps, calls, raised, escaped, run, before, prev,
                saved_src, saved_dst, faults, reserved_prefix, pool, s3,
                heap, disk, fs>>

\* Manifest.add_selector: run_selectors puts the entry of every path of the
\* walk that is not reserved
AddSelector ==
    /\ pc = "constructed"
    /\ manifest_dst' = ManifestForPath(Walked(src_tree, reserved_prefix))
    /\ selectors' = {Root}
    /\ pc' = "populated"
    /\ ReservedUnchanged

\* Manifest.update: m_minimal is Manifest(root=self.root, poolsize=...), a
\* manifest with the default metadata path, whatever self.path is
UpdateReserved ==
    /\ pc \in {"populated", "updated", "marked"}
    /\ manifest_dst' =
          update(manifest_dst, Walked(src_tree, _default_metadata_path))
    /\ pc' = "updated"
    /\ UNCHANGED selectors
    /\ ReservedUnchanged

\* the keys a source manifest with the default metadata path can hold
SourceKeys ==
    {rel_p \in UNION {DOMAIN t : t \in ReservedTrees} :
        ~is_reserved_path(_default_metadata_path, rel_p)}

\* a sync into the directory marks in its xfer manifest a key of the source
\* manifest, with the source's entry
MarkTransferred ==
    /\ pc \in {"populated", "updated"}
    /\ \E rel_p \in SourceKeys, node \in SrcNodes :
          manifest_dst' = mark_transferred(manifest_dst, rel_p, LocalFile(node))
    /\ pc' = "marked"
    /\ UNCHANGED selectors
    /\ ReservedUnchanged

NextReserved == AddSelector \/ UpdateReserved \/ MarkTransferred

SpecReserved == InitReserved /\ [][NextReserved]_vars

\* C22: in every state of a manifest (constructed, populated by
\* add_selector, updated, marked by a sync) no key of its entries is its
\* reserved directory or lies below it
C22_ReservedExcluded ==
    \A rel_p \in DOMAIN manifest_dst : ~is_reserved_path(reserved_prefix, rel_p)

\* construction and add_selector keep the reserved paths out, and so does
\* every step of a manifest with the default metadata path
ReservedExcludedByWalk ==
    pc \in {"constructed", "populated"} \/ reserved_prefix = _default_metadata_path
       => C22_ReservedExcluded

-----------------------------------------------------------------------------
(* The checksum pool of run_selectors.                                     *)
(* src_tree is the directory, manifest_dst the entries of the manifest     *)
(* that add_selector(sel, do_checksum=True) fills, and pool the jobs:      *)
(* f_ck_args the paths to checksum, in the order of the walk, dispatched   *)
(* how many of them have been handed to a worker, running the paths whose  *)
(* worker has not returned, d_cksums the results in the order the workers  *)
(* returned them.                                                          *)

\* worker processes of the largest pool
MaxPool == 3

\* f_ck: a worker reads the file it was given and returns the pair of its
\* rel_path and its digest
f_ck(tree, rel_path) == <<rel_path, _md5(tree[rel_path].data)>>

\* a merge that takes the i-th result for the i-th argument
merge_by_position(entries, d_cksums) ==
    [p \in DOMAIN entries |->
        IF \E i \in 1..Len(d_cksums) : pool.f_ck_args[i] = p
        THEN [entries[p] EXCEPT !.cksum =
                 d_cksums[CHOOSE i \in 1..Len(d_cksums) : pool.f_ck_args[i] = p][2]]
        ELSE entries[p]]

\* run_selectors: for rel_p, cksum in d_cksums: entries[rel_p].cksum = cksum
merge(entries, d_cksums) ==
    [p \in DOMAIN entries |->
        IF \E i \in 1..Len(d_cksums) : d_cksums[i][1] = p
        THEN [entries[p] EXCEPT !.cksum =
                 d_cksums[CHOOSE i \in 1..Len(d_cksums) : d_cksums[i][1] = p][2]]
        ELSE entries[p]]

\* the orders in which a walk can meet the paths of S
WalkOrders(S) ==
    {o \in [1..Cardinality(S) -> S] : \A i, j \in DOMAIN o : o[i] = o[j] => i = j}

\* the directory: up to three names, each a directory or a file with one
\* of two contents
PoolTrees ==
    TreesOn({Root, <<"a">>, <<"b">>, <<"c">>},
            {DirNode(SrcTime, SrcUid, SrcGid, SrcDirPerm)}
            \cup {FileNode(d, SrcTime, SrcUid, SrcGid, "0644") : d \in Contents})

\* Manifest(root, poolsize=n) of a directory; no selector is added yet
InitPool ==
    /\ src_tree \in PoolTrees
    /\ dst_tree = src_tree
    /\ store = << >>
    /\ temps = {}
    /\ run = 0
    /\ reserved_prefix = _default_metadata_path
    /\ pool \in {[NoPool EXCEPT !.poolsize = n] : n \in 1..MaxPool}
    /\ s3 = NoListing
    /\ heap = << >>
    /\ selectors = {<<".">>}
    /\ disk = NoDisk
    /\ fs = NoFs
    /\ before = Endpoints(src_tree, store, NoManifest, NoManifest)
    /\ prev = NothingReturned
    /\ saved_src = NoManifest
    /\ saved_dst = NoManifest
    /\ faults = 0
    /\ StartWith([strategy |-> None, dry_run |-> FALSE,
                  enable_delete |-> FALSE, overwrite_regressed |-> FALSE,
                  manifest_src |-> << >>, manifest_dst |-> << >>,
                  manifest_xfer |-> << >>, diff_state |-> EmptyDiff,
                  counters |-> ZeroCounters, dirty |-> FALSE,
                  pc |-> "constructed"])

PoolUnchanged ==
    UNCHANGED <<strategy, dry_run, enable_delete, overwrite_regressed,
                manifest_src, manifest_xfer, diff_state, paths_touched,
                dir_fixups, counters, dirty, todo, cur, src_tree, dst_tree,
                store, temps, calls, raised, escaped, run, before, prev,
                saved_src, saved_dst, faults, reserved_prefix, s3, heap,
                selectors, disk, fs>>

\* run_selectors(do_checksum=True), the walk: every path gets its entry, and
\* f_ck_args lists the entries that are not directories
WalkSelectors ==
    /\ pc = "constructed"
    /\ manifest_dst' = ManifestForPath(src_tree)
    /\ \E o \in WalkOrders({p \in DOMAIN src_tree : ~src_tree[p].is_dir}) :
          pool' = [pool EXCEPT !.f_ck_args = o]
    /\ pc' = "checksumming"
    /\ PoolUnchanged

\* poolsize == 1: d_cksums = map(f_ck, f_ck_args) is lazy, so the loop over
\* it checksums the next file and stores its digest, one file at a time
MapNext ==
    /\ pc = "checksumming"
    /\ pool.poolsize = 1
    /\ pool.dispatched < Len(pool.f_ck_args)
    /\ manifest_dst' =
          merge(manifest_dst, <<f_ck(src_tree, pool.f_ck_args[pool.dispatched + 1])>>)
    /\ pool' = [pool EXCEPT !.dispatched = @ + 1]
    /\ UNCHANGED pc
    /\ PoolUnchanged

\* Pool(poolsize).imap_unordered: a free worker takes the next argument
Dispatch ==
    /\ pc = "checksumming"
    /\ pool.poolsize > 1
    /\ pool.dispatched < Len(pool.f_ck_args)
    /\ Cardinality(pool.running) < pool.poolsize
    /\ pool' = [pool EXCEPT !.dispatched = @ + 1,
                            !.running = @ \cup {pool.f_ck_args[pool.dispatched + 1]}]
    /\ UNCHANGED <<manifest_dst, pc>>
    /\ PoolUnchanged

\* a worker returns; list() collects the results as they complete
Complete ==
    /\ pc = "checksumming"
    /\ \E rel_path \in pool.running :
          pool' = [pool EXCEPT !.running = @ \ {rel_path},
                               !.d_cksums = Append(@, f_ck(src_tree, rel_path))]
    /\ UNCHANGED <<manifest_dst, pc>>
    /\ PoolUnchanged

\* every argument has its result: the loop stores the collected digests
\* (with poolsize == 1 the loop has stored them already and ends)
MergeChecksums ==
    /\ pc = "checksumming"
    /\ pool.dispatched = Len(pool.f_ck_args)
    /\ pool.running = {}
    /\ manifest_dst' = merge(manifest_dst, pool.d_cksums)
    /\ pc' = "done"
    /\ UNCHANGED pool
    /\ PoolUnchanged

NextPool == WalkSelectors \/ MapNext \/ Dispatch \/ Complete \/ MergeChecksums

SpecPool == InitPool /\ [][NextPool]_vars

\* C23: whatever the pool size and the order in which the workers return,
\* while a pool is at work no entry carries a digest, and when
\* add_selector(do_checksum=True) is done every entry that is not a
\* directory carries the digest of its own file, no directory carries one,
\* and the manifest is the one the sequential path produces
C23_ChecksumPopulation ==
    /\ pc = "checksumming" /\ pool.poolsize > 1 =>
          \A p \in DOMAIN manifest_dst : manifest_dst[p].cksum = None
    /\ pc = "done" =>
          /\ \A p \in DOMAIN manifest_dst :
                manifest_dst[p].cksum =
                   IF src_tree[p].is_dir THEN None ELSE _md5(src_tree[p].data)
          /\ manifest_dst = run_selectors(src_tree, TRUE)

\* a pool has checksummed files of different contents, and the first
\* worker to return was not the first to start
C23_Witness ==
    /\ pc = "done"
    /\ pool.poolsize > 1
    /\ Len(pool.d_cksums) >= 2
    /\ pool.d_cksums[1][1] # pool.f_ck_args[1]
    /\ pool.d_cksums[1][2] # pool.d_cksums[2][2]
    /\ \E p \in DOMAIN src_tree : src_tree[p].is_dir /\ p # Root

-----------------------------------------------------------------------------
(* S3Manifest.update: the manifest of a bucket, rebuilt from its listing.  *)
(* store holds the objects below the root, by the rest of their key, and   *)
(* s3.LastModified the second each was written at; manifest_dst is the     *)
(* manifest's entries.  s3.response is the page of the listing last        *)
(* fetched, s3.i how many of its objects the loop has passed,              *)
(* s3.s3_list_objects the counter of the list calls and s3.objsums the     *)
(* keys handed to _add_entry so far.                                       *)

\* objects in one page of a listing (MaxKeys of list_objects_v2)
MaxKeys == 1

S3MANIFEST_DIR_KEY == <<".baycat">>
S3MANIFEST_KEY == S3MANIFEST_DIR_KEY \o <<"s3manifest">>

\* the root of the manifest: the prefix of every key of the listing
S3Root == <<"oh">>

\* the keys of the bucket below the root, in the order a listing gives them
KeyOrder == <<S3MANIFEST_KEY, <<"a">>, <<"b">>>>

\* the attributes the class S3File has, its own and those of JSONSerDes
S3File_attributes ==
    {"JSON_CLASSNAME", "__init__", "_s3path_to_rel", "get_utime", "delta",
     "recompute_checksum", "__str__", "from_json_obj", "__eq__",
     "changed_from", "mark_contents_transferred", "mark_metadata_transferred",
     "to_json_obj", "copy"}

\* the ObjectSummary of the object at rel_path: the ETag is the digest
\* between quotes
ObjectSummary(bucket, modified, rel_path) ==
    [Key |-> S3Root \o rel_path,
     ETag |-> <<"\"", _md5(bucket[rel_path]), "\"">>,
     Size |-> SizeOf(bucket[rel_path]),
     LastModified |-> modified[rel_path]]

\* s3.list_objects_v2(Bucket, Prefix, ContinuationToken): the page of the
\* listing that begins at the token, which is 0 for None
list_objects_v2(bucket, modified, token) ==
    LET listed == SelectSeq(KeyOrder, LAMBDA k : k \in DOMAIN bucket)
        first == IF token = 0 THEN 1 ELSE token
        last == IF first + MaxKeys - 1 < Len(listed)
                THEN first + MaxKeys - 1 ELSE Len(listed)
    IN [KeyCount |-> last - first + 1,
        Contents |-> [i \in 1..(last - first + 1) |->
                         ObjectSummary(bucket, modified, listed[first + i - 1])],
        IsTruncated |-> last < Len(listed),
        NextContinuationToken |-> last + 1]

\* S3File._s3path_to_rel: p[len(self.root_path):]
_s3path_to_rel(root_path, p) == SubSeq(p, Len(root_path) + 1, Len(p))

\* S3File.__init__(root_path, obj_summary)
S3File(root_path, obj_summary) ==
    [_json_classname |-> "S3File", is_dir |-> FALSE, size |-> obj_summary.Size,
     mtime_ns |-> NS_PER_S * obj_summary.LastModified,
     cksum |-> SubSeq(obj_summary.ETag, 2, Len(obj_summary.ETag) - 1)[1],
     cksum_type |-> "MD5",
     uid |-> None, gid |-> None, mode |-> None, atime_ns |-> None]

\* S3File.delta(old_state)["_dirty"], with compare_checksums left False
S3File_delta(new, old) ==
    \/ new.size # old.size
    \/ Abs(new.mtime_ns - old.mtime_ns) > NS_PER_S
    \/ new.uid # old.uid
    \/ new.gid # old.gid
    \/ new.mode # old.mode

\* S3Manifest._add_entry past its first line, s3f being the entry of objsum
_add_entry(entries, root, obj_summary) ==
    LET s3f == S3File(root, obj_summary)
        dpath == _s3path_to_rel(root, obj_summary.Key)
    IN IF dpath = S3MANIFEST_KEY \/ dpath = S3MANIFEST_DIR_KEY THEN entries
       ELSE IF dpath \in DOMAIN entries /\ ~S3File_delta(s3f, entries[dpath])
            THEN entries
            ELSE Put(entries, dpath, s3f)

\* what a key of the bucket holds: files of two sizes and three digests,
\* written at seconds 0, 1 or 2
S3Objects ==
    {<<"x", t>> : t \in 0..2} \cup {<<"yy", 0>>, <<"zz", 0>>}

\* the buckets: each of two keys is absent or holds an object, and the
\* manifest of an earlier save is there or not
Buckets ==
    UNION {[({S3MANIFEST_KEY} \cap m) \cup d -> S3Objects] :
              m \in SUBSET {S3MANIFEST_KEY}, d \in SUBSET {<<"a">>, <<"b">>}}

\* an S3Manifest of the root: new, or loaded with the entries an earlier
\* update() gave it
InitS3 ==
    /\ \E b \in Buckets :
          /\ store = [k \in DOMAIN b |-> b[k][1]]
          /\ s3 = [NoListing EXCEPT !.LastModified = [k \in DOMAIN b |-> b[k][2]]]
          /\ heap = << >>
          /\ selectors = {}
          /\ disk = NoDisk
          /\ fs = NoFs
    /\ \E b \in Buckets :
          manifest_dst =
             [k \in DOMAIN b \ {S3MANIFEST_KEY} |->
                 S3File(S3Root, ObjectSummary([j \in DOMAIN b |-> b[j][1]],
                                              [j \in DOMAIN b |-> b[j][2]], k))]
    /\ src_tree = << >>
    /\ dst_tree = << >>
    /\ temps = {}
    /\ run = 0
    /\ reserved_prefix = << >>
    /\ pool = NoPool
    /\ before = Endpoints(dst_tree, store, NoManifest, NoManifest)
    /\ prev = NothingReturned
    /\ saved_src = NoManifest
    /\ saved_dst = NoManifest
    /\ faults = 0
    /\ strategy = None
    /\ dry_run = FALSE
    /\ enable_delete = FALSE
    /\ overwrite_regressed = FALSE
    /\ manifest_src = << >>
    /\ manifest_xfer = manifest_dst
    /\ diff_state = EmptyDiff
    /\ counters = ZeroCounters
    /\ dirty = FALSE
    /\ pc = "update"
    /\ paths_touched = {}
    /\ dir_fixups = {}
    /\ todo = {}
    /\ cur = None
    /\ calls = << >>
    /\ raised = {}
    /\ escaped = None

S3Unchanged ==
    UNCHANGED <<strategy, dry_run, enable_delete, overwrite_regressed,
                manifest_src, manifest_xfer, diff_state, paths_touched,
                dir_fixups, counters, dirty, todo, cur, src_tree, dst_tree,
                store, temps, calls, raised, run, before, prev,
                saved_src, saved_dst, faults, reserved_prefix, pool, heap,
                selectors, disk, fs>>

\* update() calls _fetch_objs(bucket_name, root) and returns at once if the
\* page holds no key
FetchObjs ==
    /\ pc = "update"
    /\ s3' = [s3 EXCEPT !.response = list_objects_v2(store, s3.LastModified, 0),
                        !.s3_list_objects = @ + 1]
    /\ pc' = IF s3'.response.KeyCount = 0 THEN "updated" ELSE "contents"
    /\ UNCHANGED <<manifest_dst, escaped>>
    /\ S3Unchanged

\* the loops of update() hand the next objsum of the page to _add_entry,
\* whose first line looks up S3File.from_objsum: where the class has no
\* such attribute, the AttributeError leaves update()
AddEntryWhere(has_from_objsum) ==
    /\ pc = "contents"
    /\ s3.i < s3.response.KeyCount
    /\ LET obj_summary == s3.response.Contents[s3.i + 1]
       IN /\ s3' = [s3 EXCEPT !.i = @ + 1,
                              !.objsums = Append(@, obj_summary.Key)]
          /\ IF has_from_objsum
             THEN /\ manifest_dst' = _add_entry(manifest_dst, S3Root, obj_summary)
                  /\ UNCHANGED <<pc, escaped>>
             ELSE /\ escaped' = "AttributeError"
                  /\ pc' = "crashed"
                  /\ UNCHANGED manifest_dst
    /\ S3Unchanged

AddEntry == AddEntryWhere("from_objsum" \in S3File_attributes)

NextS3 == FetchObjs \/ AddEntry

SpecS3 == InitS3 /\ [][NextS3]_vars

\* S3File.from_objsum(root, objsum) taken to be S3File(root, objsum), as
\* tests/context.py builds its S3Files
AddEntryFromObjsum == AddEntryWhere(TRUE)

\* while response['IsTruncated']: the next page, by its continuation token
FetchMore ==
    /\ pc = "contents"
    /\ s3.i = s3.response.KeyCount
    /\ s3.response.IsTruncated
    /\ s3' = [s3 EXCEPT !.response =
                           list_objects_v2(store, s3.LastModified,
                                           s3.response.NextContinuationToken),
                        !.i = 0,
                        !.s3_list_objects = @ + 1]
    /\ UNCHANGED <<manifest_dst, pc, escaped>>
    /\ S3Unchanged

\* the page is done and the listing is not truncated: update() returns
UpdateReturns ==
    /\ pc = "contents"
    /\ s3.i = s3.response.KeyCount
    /\ ~s3.response.IsTruncated
    /\ pc' = "updated"
    /\ UNCHANGED <<manifest_dst, s3, escaped>>
    /\ S3Unchanged

NextS3FromObjsum == FetchObjs \/ AddEntryFromObjsum \/ FetchMore \/ UpdateReturns

SpecS3FromObjsum == InitS3 /\ [][NextS3FromObjsum]_vars

\* update() is over, by a return or by an exception
UpdateOver == pc \in {"updated", "crashed"}

\* the pages a listing of n keys comes in
PagesOf(n) == IF n = 0 THEN 1 ELSE (n + MaxKeys - 1) \div MaxKeys

\* C24: update() returns, having handed every object of the listing to
\* _add_entry exactly once, so that every listed key that is not the
\* manifest's own has an entry, and having made one list call per page
C24_Pagination ==
    UpdateOver =>
       /\ pc = "updated"
       /\ \A k \in DOMAIN store :
             /\ Cardinality({i \in 1..Len(s3.objsums) : s3.objsums[i] = S3Root \o k}) = 1
             /\ k # S3MANIFEST_KEY => k \in DOMAIN manifest_dst
       /\ s3.s3_list_objects = PagesOf(Cardinality(DOMAIN store))

\* the entry the listing gives for key k of the bucket
Listed(k) == S3File(S3Root, ObjectSummary(store, s3.LastModified, k))

\* C25: once _add_entry has had the object of a key, the key's entry is
\* the one it had before if there was one and the delta of the listed
\* entry from it is clean, and the listed entry otherwise
C25_Adoption ==
    \A k \in DOMAIN store \ {S3MANIFEST_KEY} :
       (\E i \in 1..Len(s3.objsums) : s3.objsums[i] = S3Root \o k) =>
          /\ k \in DOMAIN manifest_dst
          /\ manifest_dst[k] =
                IF k \in DOMAIN manifest_xfer /\ ~S3File_delta(Listed(k), manifest_xfer[k])
                THEN manifest_xfer[k] ELSE Listed(k)

\* with from_objsum in place, a listing of more than one page has been read
\* to its end
PaginationSeen ==
    /\ pc = "updated"
    /\ s3.s3_list_objects > 1
    /\ S3MANIFEST_KEY \in DOMAIN store

\* with from_objsum in place, an entry was kept although the digest listed
\* is another, and an entry was replaced
AdoptionSeen ==
    /\ pc = "updated"
    /\ \E k \in DOMAIN manifest_dst :
          /\ k \in DOMAIN store /\ k \in DOMAIN manifest_xfer
          /\ manifest_dst[k] = manifest_xfer[k]
          /\ manifest_dst[k].cksum # Listed(k).cksum
    /\ \E k \in DOMAIN manifest_dst :
          /\ k \in DOMAIN store /\ k \in DOMAIN manifest_xfer
          /\ manifest_dst[k] # manifest_xfer[k]

-----------------------------------------------------------------------------
(* Entries as objects.  A LocalFile is an object that its mark_ methods    *)
(* change in place, so that two manifests which hold the same object would *)
(* change together.  Here manifest_src, manifest_dst and manifest_xfer map *)
(* each path to the identity of its entry, and heap maps an identity to    *)
(* the entry's fields.                                                     *)

\* the entries of a manifest, by value
Deref(m) == [p \in DOMAIN m |-> heap[m[p]]]

\* the identities a manifest holds
IdsOf(m) == {m[p] : p \in DOMAIN m}

\* identities of new objects, one for each of keys
NewIds(keys, used) ==
    CHOOSE ids \in [keys -> 1..(Cardinality(used) + Cardinality(keys))] :
       /\ \A p, q \in keys : ids[p] = ids[q] => p = q
       /\ \A p \in keys : ids[p] \notin used

\* the objects that can still be reached, with h[id] for a new one
Reachable(h, src, dst, xfer) ==
    Restrict(h, IdsOf(src) \cup IdsOf(dst) \cup IdsOf(xfer))

\* a copy that hands out the manifest's own entries
copy_shares_entries(m, h) == [entries |-> m, heap |-> h]

\* JSONSerDes.copy of a manifest, by its contract: from_json_obj builds a
\* new entry from the fields of each entry of to_json_obj
copy_of_manifest(m, h) ==
    LET ids == NewIds(DOMAIN m, DOMAIN h)
    IN [entries |-> ids,
        heap |-> [id \in DOMAIN h \cup IdsOf(ids) |->
                    IF id \in DOMAIN h THEN h[id]
                    ELSE copy(h[m[CHOOSE p \in DOMAIN m : ids[p] = id]])]]

\* Manifest.mark_transferred on objects: the entry of rel_path is changed
\* in place, or a copy of src_f is stored
mark_transferred_object(m, h, rel_path, src_f) ==
    IF rel_path \in DOMAIN m
    THEN [entries |-> m,
          heap |-> [h EXCEPT ![m[rel_path]] = mark_contents_transferred(@, h[src_f])]]
    ELSE LET id == NewIds({rel_path}, DOMAIN h)[rel_path]
         IN [entries |-> Put(m, rel_path, id),
             heap |-> Put(h, id, copy(h[src_f]))]

\* the manifests of a source and of a destination directory, each entry an
\* object of its own
InitObjects ==
    /\ src_tree \in TreesOn({Root, <<"a">>}, SrcNodes)
    /\ dst_tree \in TreesOn({Root, <<"a">>}, DstNodes)
    /\ manifest_src = NewIds(DOMAIN src_tree, {})
    /\ manifest_dst = NewIds(DOMAIN dst_tree, IdsOf(manifest_src))
    /\ manifest_xfer = << >>
    /\ heap = [id \in IdsOf(manifest_src) \cup IdsOf(manifest_dst) |->
                 IF id \in IdsOf(manifest_src)
                 THEN LocalFile(src_tree[CHOOSE p \in DOMAIN src_tree : manifest_src[p] = id])
                 ELSE LocalFile(dst_tree[CHOOSE p \in DOMAIN dst_tree : manifest_dst[p] = id])]
    /\ selectors = {<<".">>}
    /\ disk = NoDisk
    /\ fs = NoFs
    /\ store = << >>
    /\ temps = {}
    /\ run = 1
    /\ reserved_prefix = _default_metadata_path
    /\ pool = NoPool
    /\ s3 = NoListing
    /\ before = Endpoints(dst_tree, store, NoManifest, NoManifest)
    /\ prev = NothingReturned
    /\ saved_src = NoManifest
    /\ saved_dst = NoManifest
    /\ faults = 0
    /\ strategy = "LL"
    /\ dry_run = FALSE
    /\ enable_delete = TRUE
    /\ overwrite_regressed = TRUE
    /\ diff_state = EmptyDiff
    /\ counters = ZeroCounters
    /\ dirty = FALSE
    /\ pc = "loaded"
    /\ paths_touched = {}
    /\ dir_fixups = {}
    /\ todo = {}
    /\ cur = None
    /\ calls = << >>
    /\ raised = {}
    /\ escaped = None

ObjectsUnchanged ==
    UNCHANGED <<strategy, dry_run, enable_delete, overwrite_regressed,
                paths_touched, dir_fixups, counters, dirty, todo, cur,
                src_tree, dst_tree, store, temps, calls, raised, escaped, run,
                before, prev, saved_src, saved_dst, faults, reserved_prefix,
                pool, s3, selectors, disk, fs>>

\* SyncStrategy.__init__ takes manifest_xfer = manifest_dst.copy(), and
\* sync() begins with manifest_src.diff_from(manifest_dst)
NewSync ==
    /\ pc = "loaded"
    /\ LET c == copy_of_manifest(manifest_dst, heap)
       IN /\ manifest_xfer' = c.entries
          /\ heap' = c.heap
    /\ diff_state' = diff_from(Deref(manifest_src), Deref(manifest_dst))
    /\ pc' = "syncing"
    /\ UNCHANGED <<manifest_src, manifest_dst>>
    /\ ObjectsUnchanged

\* transfer_file and mkdir: manifest_xfer.mark_transferred / mark_mkdir of a
\* path with the source's entry
MarkTransferredObject ==
    /\ pc = "syncing"
    /\ \E rel_p \in DOMAIN manifest_src :
          LET r == mark_transferred_object(manifest_xfer, heap, rel_p,
                                           manifest_src[rel_p])
          IN /\ manifest_xfer' = r.entries
             /\ heap' = r.heap
    /\ UNCHANGED <<manifest_src, manifest_dst, diff_state, pc>>
    /\ ObjectsUnchanged

\* transfer_metadata: manifest_xfer.entries[rel_p].mark_metadata_transferred
MarkMetadataTransferred ==
    /\ pc = "syncing"
    /\ \E rel_p \in DOMAIN manifest_src \cap DOMAIN manifest_xfer :
          heap' = [heap EXCEPT ![manifest_xfer[rel_p]] =
                      mark_metadata_transferred(@, heap[manifest_src[rel_p]])]
    /\ UNCHANGED <<manifest_src, manifest_dst, manifest_xfer, diff_state, pc>>
    /\ ObjectsUnchanged

\* rm_file: manifest_xfer.mark_deleted; the entry is no one's any more
MarkDeleted ==
    /\ pc = "syncing"
    /\ \E rel_p \in DOMAIN manifest_xfer :
          /\ manifest_xfer' = mark_deleted(manifest_xfer, rel_p)
          /\ heap' = Reachable(heap, manifest_src, manifest_dst, manifest_xfer')
    /\ UNCHANGED <<manifest_src, manifest_dst, diff_state, pc>>
    /\ ObjectsUnchanged

NextObjects ==
    NewSync \/ MarkTransferredObject \/ MarkMetadataTransferred \/ MarkDeleted

SpecObjects == InitObjects /\ [][NextObjects]_vars

-----------------------------------------------------------------------------
(* Manifest.save, Manifest.load and copy().                                *)
(* manifest_dst is the entries of the manifest m and selectors its         *)
(* selectors; disk.path is what is at m.path and disk.manifest the content *)
(* of the manifest file in it.  cur is the overwrite argument of the save  *)
(* last called, manifest_xfer the manifest that load or copy returned.     *)

\* json.dump(m): every entry written whole, with the keys of its to_json_obj
to_json(m) == [written |-> "all", entries |-> m, keys |-> to_json_obj_keys]

\* a manifest file opened for writing of which only a part was written
Truncated == [written |-> "part", entries |-> << >>, keys |-> {}]

\* a file that something else wrote
NotJson == [written |-> "other", entries |-> << >>, keys |-> {}]

\* a save that overwrites whether asked to or not
save_raises_overwriting(sels, overwrite, d) ==
    IF sels = {} THEN "VacuousManifestError"
    ELSE IF d.path = "file" THEN "ValueError"
    ELSE None

\* Manifest.save up to os.makedirs: the exception it raises, if any
save_raises(sels, overwrite, d) ==
    IF sels = {} THEN "VacuousManifestError"
    ELSE IF ~overwrite /\ d.manifest.written # "none" THEN "ManifestAlreadyExists"
    ELSE IF d.path = "file" THEN "ValueError"
    ELSE None

\* json.load and Manifest.from_json_obj of a manifest file: the exception
\* raised, if any
load_raises(file) ==
    IF file.written = "none" THEN "FileNotFoundError"
    ELSE IF file.written # "all" THEN "JSONDecodeError"
    ELSE IF file.entries # << >> /\ from_json_obj_keys \ file.keys # {}
         THEN "KeyError"
    ELSE None

\* a manifest with no selector, or Manifest.for_path of the directory; at
\* its path nothing, a plain file, or a directory that holds no manifest
\* file, a file of something else, or the manifest of an earlier tree
InitSave ==
    /\ src_tree \in TreesOn({Root, <<"a">>}, SrcNodes)
    /\ dst_tree = src_tree
    /\ \/ selectors = {} /\ manifest_dst = << >>
       \/ selectors = {Root} /\ manifest_dst = ManifestForPath(src_tree)
    /\ \/ disk \in {NoDisk, [path |-> "file", manifest |-> NoFile]}
       \/ \E file \in {NoFile, NotJson}
                      \cup {to_json(ManifestForPath(t)) :
                               t \in TreesOn({Root, <<"a">>}, SrcNodes)} :
             disk = [path |-> "dir", manifest |-> file]
    /\ fs = NoFs
    /\ faults \in 0..MaxFaults
    /\ manifest_src = << >>
    /\ manifest_xfer = << >>
    /\ heap = << >>
    /\ store = << >>
    /\ temps = {}
    /\ run = 0
    /\ reserved_prefix = _default_metadata_path
    /\ pool = NoPool
    /\ s3 = NoListing
    /\ before = Endpoints(dst_tree, store, NoManifest, NoManifest)
    /\ prev = NothingReturned
    /\ saved_src = NoManifest
    /\ saved_dst = NoManifest
    /\ strategy = None
    /\ dry_run = FALSE
    /\ enable_delete = FALSE
    /\ overwrite_regressed = FALSE
    /\ diff_state = EmptyDiff
    /\ counters = ZeroCounters
    /\ dirty = FALSE
    /\ pc = "ready"
    /\ paths_touched = {}
    /\ dir_fixups = {}
    /\ todo = {}
    /\ cur = FALSE
    /\ calls = << >>
    /\ raised = {}
    /\ escaped = None

SaveUnchanged ==
    UNCHANGED <<strategy, dry_run, enable_delete, overwrite_regressed,
                manifest_src, manifest_dst, diff_state, paths_touched,
                dir_fixups, counters, dirty, todo, src_tree, dst_tree, store,
                temps, calls, raised, run, before, prev, saved_src, saved_dst,
                reserved_prefix, pool, s3, heap, selectors, fs>>

\* m.save(overwrite=...): the checks; then os.makedirs(path, exist_ok=True),
\* open(manifest_path, "w+"), which empties the file, and json.dump into
\* it, which an I/O error can end part-way
Save ==
    /\ pc = "ready"
    /\ \E overwrite \in BOOLEAN :
          LET exc == save_raises(selectors, overwrite, disk)
          IN /\ cur' = overwrite
             /\ IF exc # None
                THEN /\ escaped' = exc
                     /\ pc' = "save_raised"
                     /\ UNCHANGED <<disk, faults>>
                ELSE \/ /\ disk' = [path |-> "dir", manifest |-> to_json(manifest_dst)]
                        /\ pc' = "saved"
                        /\ UNCHANGED <<escaped, faults>>
                     \/ /\ faults > 0
                        /\ faults' = faults - 1
                        /\ disk' = [path |-> "dir", manifest |-> Truncated]
                        /\ escaped' = "OSError"
                        /\ pc' = "save_raised"
    /\ UNCHANGED manifest_xfer
    /\ SaveUnchanged

\* Manifest.load(root) after the save
Load ==
    /\ pc \in {"saved", "save_raised"}
    /\ LET exc == load_raises(disk.manifest)
       IN IF exc # None
          THEN /\ escaped' = exc
               /\ pc' = "load_raised"
               /\ UNCHANGED manifest_xfer
          ELSE /\ manifest_xfer' = load(disk.manifest.entries)
               /\ escaped' = None
               /\ pc' = "loaded"
    /\ UNCHANGED <<disk, faults, cur>>
    /\ SaveUnchanged

\* m.copy(): from_json_obj(to_json_obj())
Copy ==
    /\ pc = "ready"
    /\ LET exc == load_raises(to_json(manifest_dst))
       IN IF exc # None
          THEN /\ escaped' = exc
               /\ pc' = "copy_raised"
               /\ UNCHANGED manifest_xfer
          ELSE /\ manifest_xfer' = load(manifest_dst)
               /\ UNCHANGED escaped
               /\ pc' = "copied"
    /\ UNCHANGED <<disk, faults, cur>>
    /\ SaveUnchanged

NextSave == Save \/ Load \/ Copy

SpecSave == InitSave /\ [][NextSave]_vars

\* C27: for a manifest with a selector, Manifest.load of what save wrote
\* returns a manifest equal to it, and so does copy()
C27_RoundTrip ==
    /\ pc \in {"loaded", "load_raised"} /\ disk.manifest = to_json(manifest_dst) =>
          pc = "loaded" /\ manifest_xfer = manifest_dst
    /\ pc \in {"copied", "copy_raised"} /\ selectors # {} =>
          pc = "copied" /\ manifest_xfer = manifest_dst

\* the exceptions of the checks of save()
SaveRefusals == {"VacuousManifestError", "ManifestAlreadyExists", "ValueError"}

\* C28: save() raises VacuousManifestError without selectors,
\* ManifestAlreadyExists if the manifest file exists and overwrite is not
\* set, and an error if its path is not a directory, overwrite or not; when
\* it raises one of these the disk is as it was, and when it returns with
\* overwrite set the manifest file holds the manifest
C28_SaveFailureModes ==
    [][pc = "ready" /\ pc' \in {"saved", "save_raised"} =>
          /\ selectors = {} => escaped' = "VacuousManifestError"
          /\ selectors # {} /\ ~cur' /\ disk.manifest.written # "none" =>
                escaped' = "ManifestAlreadyExists"
          /\ selectors # {} /\ disk.path = "file" => escaped' = "ValueError"
          /\ escaped' \in SaveRefusals => disk' = disk
          /\ pc' = "saved" =>
                disk' = [path |-> "dir", manifest |-> to_json(manifest_dst)]]_vars

\* save() has refused to overwrite the manifest of an earlier tree, which
\* is still there
C28_Witness ==
    /\ pc = "save_raised"
    /\ escaped = "ManifestAlreadyExists"
    /\ disk.manifest.written = "all"
    /\ disk.manifest.entries # manifest_dst

\* C29: a save that fails leaves the manifest file with the content it had
C29_FailedSaveKeepsManifest ==
    [][pc = "ready" /\ pc' = "save_raised" => disk'.manifest = disk.manifest]_vars

-----------------------------------------------------------------------------
(* CLIImpl.sync: the checks of its arguments.                              *)
(* strategy tells where path_src and path_dst lie before any strategy is   *)
(* made of them: "S3S3" is a source and a destination that both begin with *)
(* s3://.  dst_tree is what is at a local path_dst: << >> if nothing.      *)

\* something is at the path and it is not a directory
IsPlainFile(tree) == tree # << >> /\ ~tree[Root].is_dir

\* the destination is a local path
DstIsLocal == strategy \in {"LL", "S3L"}

\* sync(path_src, path_dst) up to "Load our manifests from the wire": the
\* exception it raises, if any
sync_raises(kind, opt_dry_run, tree) ==
    IF kind = "S3S3" THEN "ValueError"
    ELSE IF kind \in {"LL", "S3L"} /\ IsPlainFile(tree) THEN "FileNotFoundError"
    ELSE IF kind \in {"LL", "S3L"} /\ tree = << >> /\ opt_dry_run
         THEN "FileNotFoundError"
    ELSE None

InitCliArgs ==
    /\ src_tree \in TreesOver(SrcNodes)
    /\ dst_tree \in TreesOver(DstNodes)
                    \cup {<< >>, (Root :> FileNode("x", SrcTime, SrcUid, SrcGid, "0644"))}
    /\ store = << >>
    /\ temps = {}
    /\ run = 1
    /\ reserved_prefix = _default_metadata_path
    /\ pool = NoPool
    /\ s3 = NoListing
    /\ heap = << >>
    /\ selectors = {<<".">>}
    /\ disk = NoDisk
    /\ fs = NoFs
    /\ prev = NothingReturned
    /\ faults = 0
    /\ saved_src = NoManifest
    /\ saved_dst = NoManifest
    /\ before = Endpoints(dst_tree, store, saved_src, saved_dst)
    /\ \E opt_dry_run \in BOOLEAN, kind \in {"LL", "LS3", "S3L", "S3S3"} :
          StartWith([Construct(kind, << >>, << >>, opt_dry_run, FALSE, FALSE)
                       EXCEPT !.pc = "cli_args"])

\* the checks: a missing local destination is made unless this is a dry
\* run; between two local paths the sync goes on
CliCheck ==
    /\ pc = "cli_args"
    /\ LET exc == sync_raises(strategy, dry_run, dst_tree)
       IN IF exc # None
          THEN /\ escaped' = exc
               /\ pc' = "cli_raised"
               /\ UNCHANGED dst_tree
          ELSE /\ dst_tree' = IF DstIsLocal /\ dst_tree = << >>
                              THEN FreshDir(Now) ELSE dst_tree
               /\ pc' = IF strategy = "LL" THEN "cli" ELSE "cli_checked"
               /\ UNCHANGED escaped
    /\ UNCHANGED manifest_fields
    /\ UNCHANGED <<strategy, dry_run, enable_delete, overwrite_regressed,
                   manifest_src, manifest_dst, manifest_xfer, diff_state,
                   paths_touched, dir_fixups, counters, dirty, todo, cur,
                   src_tree, store, temps, calls, raised, run, before, prev,
                   saved_src, saved_dst, faults>>

NextCliArgs == CliCheck \/ CliStart \/ SyncStep \/ CliSave

SpecCliArgs == InitCliArgs /\ [][NextCliArgs]_vars

\* sync() was called with arguments that are an input error
InputError ==
    /\ pc # "cli_args"
    /\ \/ strategy = "S3S3"
       \/ DstIsLocal /\ IsPlainFile(before.tree)
       \/ DstIsLocal /\ before.tree = << >> /\ dry_run

\* no manifest was loaded or saved, no directory made, no primitive invoked
NoWorkDone ==
    /\ manifest_src = << >> /\ manifest_dst = << >> /\ manifest_xfer = << >>
    /\ saved_src = before.saved_src /\ saved_dst = before.saved_dst
    /\ dst_tree = before.tree /\ store = before.store /\ temps = {}
    /\ calls = << >>

\* C30: both endpoints on the store raise an invalid-argument error, a
\* local destination that is a plain file raises FileExistsError, a missing
\* local destination in a dry run raises, and in each case no work is done
C30_InputErrors ==
    InputError =>
       /\ strategy = "S3S3" => escaped = "ValueError"
       /\ strategy # "S3S3" /\ IsPlainFile(before.tree) => escaped = "FileExistsError"
       /\ escaped # None
       /\ NoWorkDone

\* every input error does raise, and before any work
InputErrorsBeforeWork == InputError => escaped # None /\ NoWorkDone

\* a sync between two local paths whose destination was missing has made
\* the directory and has transferred into it
WorkSeen ==
    /\ pc = "returned"
    /\ before.tree = << >>
    /\ dst_tree # << >>
    /\ calls # << >>

-----------------------------------------------------------------------------
(* Syncs against the manifest of a bucket's listing: an S3Manifest whose   *)
(* entries are the S3Files of the objects listed, one per key and none for *)
(* a directory.                                                            *)

\* S3Manifest.from_bucket: the entry of every object below the root
from_bucket(bucket, modified) ==
    [k \in DOMAIN bucket \ {S3MANIFEST_KEY} |->
        S3File(S3Root, ObjectSummary(bucket, modified, k))]

\* the objects of the bucket were written at second 1; the mtimes of the
\* local files: that second, a nanosecond after it, and more than a second
\* after it
LocalTimes == {NS_PER_S, NS_PER_S + 1, 2 * NS_PER_S + 1}

\* what a path of the local tree can hold
LocalNodes ==
    {DirNode(SrcTime, SrcUid, SrcGid, SrcDirPerm)}
    \cup {FileNode("x", t, SrcUid, SrcGid, "0644") : t \in LocalTimes}

\* the buckets: the key a/f holds an object of one or the other size, or
\* the bucket is empty
ListedBuckets == {<< >>} \cup {(<<"a", "f">> :> d) : d \in Contents}

\* a local tree and a bucket, synced one way or the other, or two local
\* trees
InitListing ==
    /\ temps = {}
    /\ run = 1
    /\ reserved_prefix = _default_metadata_path
    /\ pool = NoPool
    /\ s3 = NoListing
    /\ heap = << >>
    /\ selectors = {<<".">>}
    /\ disk = NoDisk
    /\ fs = NoFs
    /\ prev = NothingReturned
    /\ saved_src = NoManifest
    /\ saved_dst = NoManifest
    /\ faults = 0
    /\ store \in ListedBuckets
    /\ \E kind \in {"LS3", "S3L", "LL"}, tree, tree2 \in TreesOver(LocalNodes),
          opt_dry_run, opt_enable_delete, opt_overwrite \in BOOLEAN :
          LET m_local == ManifestForPath(tree)
              m_s3 == from_bucket(store, [k \in DOMAIN store |-> 1])
          IN  /\ kind = "LL" => store = << >>
              /\ kind # "LL" => tree2 = tree
              /\ src_tree = IF kind = "S3L" THEN << >> ELSE tree
              /\ dst_tree = IF kind = "LS3" THEN << >> ELSE tree2
              /\ StartWith(Construct(kind,
                                     IF kind = "S3L" THEN m_s3 ELSE m_local,
                                     IF kind = "LS3" THEN m_s3
                                     ELSE ManifestForPath(tree2),
                                     opt_dry_run, opt_enable_delete, opt_overwrite))
    /\ before = Endpoints(dst_tree, store, NoManifest, NoManifest)

NextListing == SyncStep

SpecListing == InitListing /\ [][NextListing]_vars

\* every key of m below the root has its directories in m, up to the root
ParentClosed(m) ==
    \A p \in DOMAIN m \ {Root} :
       Root \in DOMAIN m /\ \A q \in Prefixes(p) : q \in DOMAIN m

\* C31: a local manifest is parent-closed: the manifest populated from the
\* destination directory, and the xfer manifest that a sync into a local
\* destination returns
C31_ParentClosed ==
    strategy \in {"LL", "S3L"} =>
       /\ ParentClosed(manifest_dst)
       /\ pc = "done" => ParentClosed(manifest_xfer)

\* between two local directories the manifests are parent-closed, and the
\* returned xfer manifest too where no primitive has raised
ParentClosedBetweenLocal ==
    strategy = "LL" =>
       /\ ParentClosed(manifest_src)
       /\ ParentClosed(manifest_dst)
       /\ pc = "done" /\ raised = {} => ParentClosed(manifest_xfer)

\* a download has put a file into a directory whose entry xfer has lost
OrphanSeen ==
    /\ strategy = "S3L"
    /\ pc = "done"
    /\ <<"a", "f">> \in DOMAIN manifest_xfer
    /\ <<"a">> \in DOMAIN dst_tree
    /\ <<"a">> \notin DOMAIN manifest_xfer

-----------------------------------------------------------------------------
(* The replay of the directory metadata, followed on trees three levels    *)
(* deep: a directory, a directory in it, a file in that one.               *)

DeepPaths == {Root, <<"a">>, <<"a", "c">>, <<"a", "c", "f">>}

\* what a path of the destination can hold: older than the source, or of
\* the source's time with another mode, or newer than the source
DeepNodes ==
    OlderNodes
    \cup {FileNode("x", SrcTime, SrcUid, SrcGid, "0600"),
          DirNode(MaxTime, SrcUid, SrcGid, SrcDirPerm)}

InitDeep ==
    /\ src_tree \in TreesOn(DeepPaths, SrcNodes)
    /\ dst_tree \in TreesOn(DeepPaths, DeepNodes)
    /\ store = << >>
    /\ temps = {}
    /\ run = 1
    /\ reserved_prefix = _default_metadata_path
    /\ pool = NoPool
    /\ s3 = NoListing
    /\ heap = << >>
    /\ selectors = {<<".">>}
    /\ disk = NoDisk
    /\ fs = NoFs
    /\ before = Endpoints(dst_tree, store, NoManifest, NoManifest)
    /\ prev = NothingReturned
    /\ saved_src = NoManifest
    /\ saved_dst = NoManifest
    /\ faults = 0
    /\ \E opt_enable_delete, opt_overwrite \in BOOLEAN :
          StartWith(Construct("LL", ManifestForPath(src_tree),
                              ManifestForPath(dst_tree),
                              FALSE, opt_enable_delete, opt_overwrite))

NextDeep == SyncStep

SpecDeep == InitDeep /\ [][NextDeep]_vars

\* q lies in directory d or deeper
StrictlyBelow(q, d) == Len(q) > Len(d) /\ SubSeq(q, 1, Len(d)) = d

\* the directories of the source below the root
SourceDirs == {d \in DOMAIN manifest_src \ {Root} : manifest_src[d].is_dir}

\* this step invokes some primitive on a path below d
InvokesBelow(d) ==
    \E q \in DeepPaths, op \in {"rm", "mkdir", "xfer", "meta"} :
       StrictlyBelow(q, d) /\ Invokes(op, q)

\* some primitive has been invoked on a path below d
InvokedBelow(d) ==
    \E k \in DOMAIN calls : StrictlyBelow(k[2], d)

\* C32: in a sync in which no primitive raises, every directory d of the
\* source below which a primitive was invoked is in the replay loop, d
\* leaves that loop only by the invocation of transfer_metadata(d), and a
\* primitive invoked below d within the replay loop finds d still waiting:
\* transfer_metadata(d) comes after the last invocation below d
C32_DirMetadataLast ==
    [][raised' = {} =>
          \A d \in SourceDirs :
             /\ pc = "replay" /\ InvokesBelow(d) => d \in todo'
             /\ pc = "replay" /\ d \in todo /\ d \notin todo' =>
                   Invokes("meta", d)
             /\ pc # "replay" /\ pc' = "replay" /\ InvokedBelow(d)' =>
                   d \in todo'
             /\ pc' = "done" /\ InvokedBelow(d)' =>
                   /\ pc = "replay"
                   /\ <<-n_comps(d), d>> \in dir_fixups'
                   /\ Count(calls', <<"meta", d>>) > 0]_vars

\* a sync has transferred a file two directories deep and has replayed the
\* metadata of both directories, nothing having failed
C32_Witness ==
    /\ pc = "done"
    /\ raised = {}
    /\ Count(calls, <<"xfer", <<"a", "c", "f">>>>) = 1
    /\ Count(calls, <<"meta", <<"a", "c">>>>) > 0
    /\ Count(calls, <<"meta", <<"a">>>>) > 0
    /\ dst_tree[<<"a">>].mtime_ns = src_tree[<<"a">>].mtime_ns

-----------------------------------------------------------------------------
(* _transfer_file of the local destinations, system call by system call.   *)

\* os.path.isabs: a path is a sequence of components, "/" first if absolute
isabs(p) == Len(p) > 0 /\ p[1] = "/"

\* os.path.join: an absolute second part discards the first
os_path_join(a, b) == IF isabs(b) THEN b ELSE a \o b

\* os.path.abspath for a process whose working directory is cwd
abspath(cwd, p) == os_path_join(cwd, p)

\* Manifest.root of the destination manifest: the rootpath of its selector
dst_root == CHOOSE r \in selectors : TRUE

\* Manifest.expand_path: os.path.join(self.root, rel_path)
expand_path(root, rel_path) ==
    os_path_join(root, IF rel_path = Root THEN << >> ELSE rel_path)

\* tempfile.mkstemp(prefix=..., dir=...): the new file is
\* os.path.join(dir, prefix + random characters)
mkstemp(prefix, dir) ==
    [dir |-> dirname(os_path_join(dir, prefix)), name |-> prefix[Len(prefix)]]

\* no temp file
NoTemp == [dir |-> << >>, name |-> None]

\* the directory the destination path rel_p lies in
OwnDir(rel_p) == abspath(fs.cwd, dirname(expand_path(dst_root, rel_p)))

\* the directory d exists: in the destination tree or outside it
isdir(d) ==
    \/ d \in fs.dirs
    \/ \E q \in DOMAIN dst_tree :
          dst_tree[q].is_dir /\ abspath(fs.cwd, expand_path(dst_root, q)) = d

\* the bytes of a content
read(data) == IF data = "x" THEN <<"x">> ELSE <<"y", "y">>

\* what shutil.copy or download_file reads for rel_p
src_data(rel_p) ==
    IF strategy = "LL" THEN src_tree[rel_p].data ELSE store[rel_p]

\* one system call of _transfer_file has returned or raised
SysCall(pc2, fs2, tree2, exc, faults2) ==
    /\ pc' = pc2
    /\ fs' = fs2
    /\ dst_tree' = tree2
    /\ escaped' = exc
    /\ faults' = faults2
    /\ UNCHANGED <<strategy, dry_run, enable_delete, overwrite_regressed,
                   manifest_src, manifest_dst, manifest_xfer, diff_state,
                   paths_touched, dir_fixups, counters, dirty, todo, cur,
                   src_tree, store, temps, calls, raised, run, before, prev,
                   saved_src, saved_dst, reserved_prefix, pool, s3, heap,
                   selectors, disk>>

\* fd, dst_temp = tempfile.mkstemp(prefix=dst_path, dir="/"); os.close(fd)
TempMkstemp ==
    /\ pc = "mkstemp"
    /\ LET dst_temp == mkstemp(expand_path(dst_root, cur), <<"/">>)
       IN  \/ /\ isdir(dst_temp.dir)
              /\ SysCall("copy",
                         [fs EXCEPT !.dst_temp = dst_temp, !.written = << >>],
                         IF dst_temp.dir = OwnDir(cur)
                         THEN Touch(dst_tree, FsParent(cur)) ELSE dst_tree,
                         None, faults)
           \/ /\ ~isdir(dst_temp.dir)
              /\ SysCall("raised", fs, dst_tree, "FileNotFoundError", faults)
           \/ /\ faults > 0
              /\ SysCall("raised", fs, dst_tree, "OSError", faults - 1)

\* shutil.copy(src_path, dst_temp) or download_file(src_path, dst_temp):
\* the temp file grows as the source is read
TempCopy ==
    /\ pc = "copy"
    /\ LET data == read(src_data(cur))
           n == Len(fs.written)
       IN  \/ /\ n < Len(data)
              /\ SysCall("copy", [fs EXCEPT !.written = Append(@, data[n + 1])],
                         dst_tree, None, faults)
           \/ /\ n = Len(data)
              /\ SysCall("rename", fs, dst_tree, None, faults)
           \/ /\ faults > 0
              /\ SysCall("raised", fs, dst_tree, "OSError", faults - 1)

\* os.rename(dst_temp, dst_path): atomic within one filesystem, refused
\* across two, refused where dst_path is a directory
TempRename ==
    /\ pc = "rename"
    /\ LET beside == fs.dst_temp.dir = OwnDir(cur)
           perm == IF strategy = "LL" THEN src_tree[cur].perm ELSE MkstempPerm
       IN  \/ /\ RenameOk(cur)
              /\ beside \/ fs.same_dev
              /\ SysCall("returned", [fs EXCEPT !.dst_temp = NoTemp],
                         Put(Touch(dst_tree, FsParent(cur)), cur,
                             FileNode(src_data(cur), Now, ProcUid, ProcGid, perm)),
                         None, faults)
           \/ /\ ~RenameOk(cur) \/ ~(beside \/ fs.same_dev)
              /\ SysCall("raised", fs, dst_tree, "OSError", faults)
           \/ /\ faults > 0
              /\ SysCall("raised", fs, dst_tree, "OSError", faults - 1)

\* what the file a/f can hold at either end
TempNodes ==
    {DirNode(SrcTime, SrcUid, SrcGid, SrcDirPerm)}
    \cup {FileNode(d, SrcTime, SrcUid, SrcGid, "0644") : d \in Contents}

\* _transfer_file(a/f) is about to run: from a local tree or from a bucket,
\* to a destination named by an absolute or by a relative path, by a process
\* in / or in /w, with or without a directory /dst/a of another tree
InitTemp ==
    /\ temps = {}
    /\ run = 1
    /\ reserved_prefix = _default_metadata_path
    /\ pool = NoPool
    /\ s3 = NoListing
    /\ heap = << >>
    /\ disk = NoDisk
    /\ prev = NothingReturned
    /\ saved_src = NoManifest
    /\ saved_dst = NoManifest
    /\ faults \in 0..MaxFaults
    /\ cur = <<"a", "f">>
    /\ todo = {cur}
    /\ selectors \in {{<<"/", "w", "dst">>}, {<<"dst">>}}
    /\ \E cwd \in {<<"/">>, <<"/", "w">>}, dirs \in SUBSET {<<"/", "dst", "a">>},
          same_dev \in BOOLEAN :
          /\ fs = [cwd |-> cwd, dirs |-> dirs, same_dev |-> same_dev,
                   dst_temp |-> NoTemp, written |-> << >>]
          /\ dirs \cap {abspath(cwd, expand_path(dst_root, q)) : q \in Paths} = {}
    /\ dst_tree \in TreesOver(TempNodes)
    /\ \E kind \in {"LL", "S3L"}, data \in Contents :
          LET tree == [q \in Paths |-> IF q = cur
                                       THEN FileNode(data, SrcTime, SrcUid, SrcGid, "0644")
                                       ELSE DirNode(SrcTime, SrcUid, SrcGid, SrcDirPerm)]
              objs == (cur :> data)
          IN  /\ src_tree = IF kind = "LL" THEN tree ELSE << >>
              /\ store = IF kind = "S3L" THEN objs ELSE << >>
              /\ strategy = kind
              /\ manifest_src = IF kind = "LL" THEN ManifestForPath(tree)
                                ELSE from_bucket(objs, [k \in DOMAIN objs |-> 1])
    /\ manifest_dst = ManifestForPath(dst_tree)
    /\ manifest_xfer = copy_manifest(manifest_dst)
    /\ dry_run = FALSE
    /\ enable_delete = FALSE
    /\ overwrite_regressed = FALSE
    /\ diff_state = diff_from(manifest_src, manifest_dst)
    /\ counters = [ZeroCounters EXCEPT !.xfer = 1]
    /\ dirty = FALSE
    /\ pc = "mkstemp"
    /\ paths_touched = {}
    /\ dir_fixups = {}
    /\ calls = (<<"xfer", cur>> :> 1)
    /\ raised = {}
    /\ escaped = None
    /\ before = Endpoints(dst_tree, store, NoManifest, NoManifest)

NextTemp == TempMkstemp \/ TempCopy \/ TempRename

SpecTemp == InitTemp /\ [][NextTemp]_vars

\* the destination path holds what it held before the transfer, or nothing
\* if there was nothing
HoldsPrior(rel_p) ==
    IF rel_p \in DOMAIN before.tree
    THEN rel_p \in DOMAIN dst_tree /\ dst_tree[rel_p] = before.tree[rel_p]
    ELSE rel_p \notin DOMAIN dst_tree

\* the destination path holds the whole of the new content
HoldsNew(rel_p) ==
    /\ rel_p \in DOMAIN dst_tree
    /\ ~dst_tree[rel_p].is_dir
    /\ read(dst_tree[rel_p].data) = read(src_data(rel_p))

\* at every step of _transfer_file the destination path holds its prior
\* content or the whole new content, and it changes by the rename alone
PriorOrComplete ==
    /\ HoldsPrior(cur) \/ HoldsNew(cur)
    /\ ~HoldsPrior(cur) => pc = "returned"

\* C33: at every step of the local _transfer_file(p), a step that raises
\* included, p holds its prior content (or is absent) or the whole new
\* content, the content changes by the final rename alone, and the temp
\* file is one created in p's own directory
C33_TempThenRename ==
    /\ PriorOrComplete
    /\ fs.dst_temp.name # None => fs.dst_temp.dir = OwnDir(cur)

\* a temp file holds part of the new content while the path holds the old
PartialTempSeen ==
    /\ pc = "copy"
    /\ fs.dst_temp.dir = OwnDir(cur)
    /\ Len(fs.written) > 0
    /\ Len(fs.written) < Len(read(src_data(cur)))
    /\ cur \in DOMAIN dst_tree

-----------------------------------------------------------------------------
(* The keys of the bucket as strings: the manifest's own key.               *)

\* a string is a sequence of symbols here, each a "/" or a name without
\* one; the string of a relative path has a "/" between its names
RECURSIVE to_str(_)
to_str(path) ==
    IF Len(path) <= 1 THEN path
    ELSE <<path[1], "/">> \o to_str(Tail(path))

\* while '//' in result: result = result.replace('//', '/')
RECURSIVE replace_slashes(_)
replace_slashes(str) ==
    IF Len(str) <= 1 THEN str
    ELSE IF str[1] = "/" /\ str[2] = "/" THEN replace_slashes(Tail(str))
    ELSE <<str[1]>> \o replace_slashes(Tail(str))

\* util.bc_path_join(a, b): '/'.join(args), runs of slashes made one
bc_path_join(a, b) == replace_slashes(a \o <<"/">> \o b)

\* S3File.from_objsum(root, objsum): the entry of a listed object,
\* S3File(root, objsum), kept with its rel_path
from_objsum(root, objsum) ==
    [s3f |-> S3File(root, objsum), rel_path |-> _s3path_to_rel(root, objsum["Key"])]

\* S3Manifest._add_entry on the strings of the keys
_add_entry_str(entries, root, objsum) ==
    LET s3f == from_objsum(root, objsum).s3f
        dpath == from_objsum(root, objsum).rel_path
    IN IF dpath = to_str(S3MANIFEST_KEY) \/ dpath = to_str(S3MANIFEST_DIR_KEY)
       THEN entries
       ELSE IF dpath \in DOMAIN entries /\ ~S3File_delta(s3f, entries[dpath])
            THEN entries
            ELSE Put(entries, dpath, s3f)

\* the key S3Manifest.save() writes the manifest to, and the .baycat key
own_key(root) == bc_path_join(root, to_str(S3MANIFEST_KEY))
own_dir_key(root) == bc_path_join(root, to_str(S3MANIFEST_DIR_KEY))

\* the listing of a manifest rooted at root, not yet asked for
ListingAt(root) ==
    [root |-> root, LastModified |-> << >>, response |-> None, i |-> 0,
     s3_list_objects |-> 0, objsums |-> << >>]

\* the roots: empty, with and without a slash in front and at the end
S3Roots ==
    {<< >>, <<"/">>, <<"oh">>, <<"oh", "/">>, <<"/", "oh">>, <<"/", "oh", "/">>}

\* the keys below root a bucket can hold, in the order they are listed
KeysBelow(root) ==
    <<own_dir_key(root), own_key(root), bc_path_join(root, <<"a">>)>>

\* everything but the bucket, the listing, the entries and the pc
KeysUnchanged ==
    UNCHANGED <<strategy, dry_run, enable_delete, overwrite_regressed,
                manifest_src, manifest_xfer, diff_state, paths_touched,
                dir_fixups, counters, dirty, todo, cur, src_tree, dst_tree,
                temps, calls, raised, escaped, run, before, prev, saved_src,
                saved_dst, faults, reserved_prefix, pool, heap, selectors,
                disk, fs>>

\* an S3Manifest with no entries on a bucket that holds some of the keys
\* below its root, the manifest of an earlier save among them or not
InitKeys ==
    /\ \E root \in S3Roots :
          /\ s3 = ListingAt(root)
          /\ \E ks \in SUBSET {own_dir_key(root), bc_path_join(root, <<"a">>)} :
                store \in [ks -> Contents]
    /\ manifest_dst = << >>
    /\ manifest_src = << >>
    /\ manifest_xfer = << >>
    /\ pc = "ready"
    /\ strategy = "LS3"
    /\ dry_run = FALSE
    /\ enable_delete = FALSE
    /\ overwrite_regressed = FALSE
    /\ diff_state = EmptyDiff
    /\ counters = ZeroCounters
    /\ dirty = FALSE
    /\ paths_touched = {}
    /\ dir_fixups = {}
    /\ todo = {}
    /\ cur = None
    /\ calls = << >>
    /\ raised = {}
    /\ escaped = None
    /\ src_tree = << >>
    /\ dst_tree = << >>
    /\ temps = {}
    /\ run = 1
    /\ before = Endpoints(dst_tree, store, NoManifest, NoManifest)
    /\ prev = NothingReturned
    /\ saved_src = NoManifest
    /\ saved_dst = NoManifest
    /\ faults = 0
    /\ reserved_prefix = << >>
    /\ pool = NoPool
    /\ heap = << >>
    /\ selectors = {}
    /\ disk = NoDisk
    /\ fs = NoFs

\* S3Manifest.save(): upload_fileobj to bc_path_join(self.root, self.path)
KeysSave ==
    /\ pc = "ready"
    /\ \E json \in Contents :
          store' = Put(store, bc_path_join(s3.root, to_str(S3MANIFEST_KEY)), json)
    /\ pc' = "saved"
    /\ UNCHANGED <<s3, manifest_dst>>
    /\ KeysUnchanged

\* update(): _fetch_objs(bucket_name, root), Prefix=root; every key of the
\* bucket begins with the root here
KeysFetchObjs ==
    /\ pc \in {"ready", "saved"}
    /\ LET listed == SelectSeq(KeysBelow(s3.root), LAMBDA k : k \in DOMAIN store)
       IN  s3' = [s3 EXCEPT
                     !.response =
                        [KeyCount |-> Len(listed),
                         Contents |-> [i \in 1..Len(listed) |->
                                          [Key |-> listed[i],
                                           ETag |-> <<"\"", _md5(store[listed[i]]), "\"">>,
                                           Size |-> SizeOf(store[listed[i]]),
                                           LastModified |-> 1]],
                         IsTruncated |-> FALSE],
                     !.s3_list_objects = @ + 1]
    /\ pc' = "contents"
    /\ UNCHANGED <<store, manifest_dst>>
    /\ KeysUnchanged

\* for objsum in response['Contents']: self._add_entry(objsum)
KeysAddEntry ==
    /\ pc = "contents"
    /\ s3.i < s3.response.KeyCount
    /\ LET objsum == s3.response.Contents[s3.i + 1]
       IN  /\ manifest_dst' = _add_entry_str(manifest_dst, s3.root, objsum)
           /\ s3' = [s3 EXCEPT !.i = @ + 1, !.objsums = Append(@, objsum.Key)]
    /\ UNCHANGED <<store, pc>>
    /\ KeysUnchanged

\* the listing is not truncated: update() returns
KeysReturn ==
    /\ pc = "contents"
    /\ s3.i = s3.response.KeyCount
    /\ pc' = "updated"
    /\ UNCHANGED <<store, s3, manifest_dst>>
    /\ KeysUnchanged

NextKeys == KeysSave \/ KeysFetchObjs \/ KeysAddEntry \/ KeysReturn

SpecKeys == InitKeys /\ [][NextKeys]_vars

\* the entries hold none for the manifest's own key nor for its directory
NoOwnEntry ==
    \A dpath \in DOMAIN manifest_dst :
       /\ bc_path_join(s3.root, dpath) # own_key(s3.root)
       /\ bc_path_join(s3.root, dpath) # own_dir_key(s3.root)

\* C34: after update(), whatever the prefix (empty, with or without a slash
\* in front or at the end), the entries hold no entry for the manifest's own
\* key <prefix>/.baycat/s3manifest nor for the .baycat key
C34_OwnKeySkipped == pc = "updated" => NoOwnEntry

\* the same for the prefixes that end in a slash
OwnKeySkippedAfterSlash ==
    pc = "updated" /\ Len(s3.root) > 0 /\ s3.root[Len(s3.root)] = "/" => NoOwnEntry

\* update() has met the manifest's own key and skipped it
OwnKeySkipSeen ==
    /\ pc = "updated"
    /\ own_key(s3.root) \in DOMAIN store
    /\ Len(s3.root) > 0 /\ s3.root[Len(s3.root)] = "/"
    /\ DOMAIN manifest_dst # {}

-----------------------------------------------------------------------------
(* The resolution of the mtime comparison.                                  *)

\* the paths both manifests hold as files
CommonFiles ==
    {p \in DOMAIN manifest_src \cap DOMAIN manifest_dst :
        ~manifest_src[p].is_dir /\ ~manifest_dst[p].is_dir}

\* the mtimes of the two entries of p are this far apart
MtimeGap(p) == Abs(manifest_src[p].mtime_ns - manifest_dst[p].mtime_ns)

\* one of the two entries of p comes from the object store
FromStore(p) ==
    \/ JSON_CLASSNAME(manifest_src[p]) = "S3File"
    \/ JSON_CLASSNAME(manifest_dst[p]) = "S3File"

\* with an entry of the object store on either side, mtimes less than a
\* second apart are not flagged, and alone do not put the path into contents
ToleratesStoreResolution(p) ==
    FromStore(p) /\ MtimeGap(p) < NS_PER_S =>
       /\ ~file_delta(manifest_src[p], manifest_dst[p]).mtime_ns
       /\ manifest_src[p].size = manifest_dst[p].size => p \notin diff_state.contents

\* between two local entries a nanosecond of difference is flagged
FlagsLocalNanosecond(p) ==
    ~FromStore(p) /\ MtimeGap(p) >= TIME_RESOLUTION_NS =>
       /\ file_delta(manifest_src[p], manifest_dst[p]).mtime_ns
       /\ p \in diff_state.contents

\* C35: in the diff sync() takes, a file whose two entries include one of
\* the object store and whose mtimes are less than one second apart is not
\* mtime-dirty, whichever side is the new manifest, and between two local
\* entries a difference of at least 1 ns is flagged
C35_MtimeTolerance ==
    pc # "start" =>
       \A p \in CommonFiles : ToleratesStoreResolution(p) /\ FlagsLocalNanosecond(p)

\* the same where the new manifest is the one of the object store, and
\* between local entries
MtimeToleranceFromStore ==
    pc # "start" /\ strategy # "LS3" =>
       \A p \in CommonFiles : ToleratesStoreResolution(p) /\ FlagsLocalNanosecond(p)

\* a download whose local copy is a nanosecond off the listing is left alone
ToleranceSeen ==
    /\ pc = "done"
    /\ strategy = "S3L"
    /\ \E p \in CommonFiles : MtimeGap(p) = 1 /\ p \in diff_state.metadata
                              /\ p \notin diff_state.contents

\* two local entries a nanosecond apart are transferred
NanosecondSeen ==
    /\ pc = "done"
    /\ strategy = "LL"
    /\ \E p \in CommonFiles : MtimeGap(p) = 1 /\ Count(calls, <<"xfer", p>>) = 1

-----------------------------------------------------------------------------
(* The counters of the engine.                                              *)

\* how often the primitive op has been invoked, over all paths
RECURSIVE SumCalls(_, _)
SumCalls(op, keys) ==
    IF keys = {} THEN 0
    ELSE LET k == CHOOSE x \in keys : TRUE
         IN  (IF k[1] = op THEN calls[k] ELSE 0) + SumCalls(op, keys \ {k})

Attempts(op) == SumCalls(op, DOMAIN calls)

\* the invocations of op that raised
Failures(op) == Cardinality({r \in raised : r[1] = op})

\* self._counters[...] of the primitive op
CounterOf(op) ==
    CASE op = "rm"    -> counters.rm
      [] op = "mkdir" -> counters.mkdir
      [] op = "xfer"  -> counters.xfer
      [] op = "meta"  -> counters.xfer_metadata

\* C36: when a sync is over, the counter of each operation (rm, mkdir, xfer,
\* xfer_metadata) is the number of invocations of its primitive that
\* succeeded, and where the sync returned rm + delete_skipped is the number
\* of paths of plan.deleted
C36_CountersCountSuccesses ==
    pc \in {"done", "crashed"} =>
       /\ \A op \in {"rm", "mkdir", "xfer", "meta"} :
             CounterOf(op) = Attempts(op) - Failures(op)
       /\ pc = "done" =>
             counters.rm + counters.delete_skipped = Cardinality(diff_state.deleted)

\* the counters count the invocations, those that raised included
CountersCountAttempts ==
    /\ \A op \in {"rm", "mkdir", "xfer", "meta"} : CounterOf(op) = Attempts(op)
    /\ pc = "done" =>
          counters.rm + counters.delete_skipped = Cardinality(diff_state.deleted)

\* a sync returned after one of its transfers had raised
FailedTransferCounted ==
    pc = "done" /\ (\E r \in raised : r[1] = "xfer") /\ counters.xfer > 0

-----------------------------------------------------------------------------
(* The lists of a diff.                                                     *)

\* what a path of the destination holds: a directory or a file of the
\* source's size, older than the source, as old or newer, or a larger file
PlanNodes ==
    {DirNode(t, SrcUid, SrcGid, SrcDirPerm) : t \in Times}
    \cup {FileNode("x", t, SrcUid, SrcGid, pm) : t \in Times, pm \in FilePerms}
    \cup {FileNode("yy", SrcTime, SrcUid, SrcGid, "0644")}

\* two local trees over four paths, the destination older or newer than the
\* source, and the diff that sync() begins with
InitPlan ==
    /\ src_tree \in TreesOn(WidePaths, SrcNodes)
    /\ dst_tree \in TreesOn(WidePaths, PlanNodes)
    /\ store = << >>
    /\ temps = {}
    /\ run = 1
    /\ reserved_prefix = _default_metadata_path
    /\ pool = NoPool
    /\ s3 = NoListing
    /\ heap = << >>
    /\ selectors = {<<".">>}
    /\ disk = NoDisk
    /\ fs = NoFs
    /\ before = Endpoints(dst_tree, store, NoManifest, NoManifest)
    /\ prev = NothingReturned
    /\ saved_src = NoManifest
    /\ saved_dst = NoManifest
    /\ faults = 0
    /\ StartWith(Construct("LL", ManifestForPath(src_tree),
                           ManifestForPath(dst_tree), FALSE, FALSE, FALSE))

NextPlan == SyncStart

SpecPlan == InitPlan /\ [][NextPlan]_vars

\* the four classes of a diff: added, deleted, unchanged and changed
DiffClasses(d) == <<d.added, d.deleted, d.unchanged, d.contents \cup d.metadata>>

\* C37: the diff that sync() takes partitions the keys of the two manifests:
\* every key of the new or of the old manifest is in exactly one of added,
\* deleted, unchanged and contents-or-metadata, and regressed lies within
\* contents-or-metadata
C37_DiffPartition ==
    pc # "start" =>
       LET cl == DiffClasses(diff_state)
       IN  /\ UNION {cl[i] : i \in 1..4} = DOMAIN manifest_src \cup DOMAIN manifest_dst
           /\ \A i, j \in 1..4 : i # j => cl[i] \cap cl[j] = {}
           /\ diff_state.regressed \subseteq cl[4]

\* a diff with an added, a deleted and an unchanged path and one that has
\* regressed
C37_Witness ==
    /\ pc # "start"
    /\ \A i \in 1..4 : DiffClasses(diff_state)[i] # {}
    /\ diff_state.regressed # {}

\* a diff with an added path and a directory changed in its mtime alone
AddedSeen ==
    /\ pc # "start"
    /\ diff_state.added # {}
    /\ diff_state.metadata \ diff_state.contents # {}

-----------------------------------------------------------------------------
(* The order of the removals.                                               *)

\* remove has been invoked on every path of plan.deleted beneath d
RemovedBeneath(d) ==
    \A q \in diff_state.deleted :
       StrictlyBelow(q, d) => Count(calls, <<"rm", q>>) > 0

\* C38: with enable_delete on, remove is invoked on a directory of
\* plan.deleted only after it has been invoked on every path of plan.deleted
\* beneath it, and a sync in which no I/O error strikes returns with every
\* path of plan.deleted gone from the destination
C38_ChildrenRemovedFirst ==
    [][/\ \A d \in diff_state.deleted :
             Invokes("rm", d) /\ manifest_dst[d].is_dir => RemovedBeneath(d)
       /\ enable_delete /\ faults' = MaxFaults /\ pc' \in {"done", "crashed"} =>
             /\ pc' = "done"
             /\ diff_state.deleted \cap DOMAIN dst_tree' = {}]_vars

\* the removals of a sync that takes the paths beneath a directory first
\* all succeed
ChildrenFirstSucceeds ==
    /\ pc = "done"
    /\ enable_delete
    /\ \E d \in diff_state.deleted :
          /\ manifest_dst[d].is_dir
          /\ \E q \in diff_state.deleted : StrictlyBelow(q, d)
    /\ diff_state.deleted \cap DOMAIN dst_tree = {}

-----------------------------------------------------------------------------
(* The paths sync() hands to the primitives.                                *)

\* mkdir, transfer_file and transfer_metadata were invoked on keys of the
\* source manifest only, the directories of the replay among them, and no
\* KeyError has left sync()
SourceKeysOnly ==
    /\ \A k \in DOMAIN calls :
          k[1] \in {"mkdir", "xfer", "meta"} => k[2] \in DOMAIN manifest_src
    /\ \A f \in dir_fixups :
          f[2] \notin diff_state.deleted => f[2] \in DOMAIN manifest_src
    /\ escaped # "KeyError"

\* C39: for any pair of manifests, one of the object store that holds files
\* and no directories included, every path on which sync() invokes mkdir,
\* transfer_content or transfer_metadata, the ancestors it puts into
\* dir_fixups included, is a key of the source manifest, and no sync, dry
\* run or not, raises or is marked dirty for a missing source entry
C39_SourceKeysOnly ==
    /\ SourceKeysOnly
    /\ faults = MaxFaults /\ raised = {} => ~dirty

\* the same between two local trees
SourceKeysOnlyBetweenLocal == strategy = "LL" => SourceKeysOnly

\* a sync between local trees has replayed a directory
LocalReplaySeen ==
    /\ strategy = "LL"
    /\ pc = "done"
    /\ \E f \in dir_fixups : Count(calls, <<"meta", f[2]>>) > 0

-----------------------------------------------------------------------------
(* The transfer manifest and the destination tree.                          *)

\* the keys of xfer are the paths of the destination tree
XferTracksTree == DOMAIN manifest_xfer = DOMAIN dst_tree

\* C40: when a local-to-local sync that was no dry run returns and no
\* operation has failed, a path is a key of xfer iff it exists in the
\* destination tree; with enable_delete off the paths of plan.deleted are
\* still there and still keys of xfer
C40_XferTracksTree ==
    strategy = "LL" /\ pc = "done" /\ ~dry_run /\ raised = {} =>
       /\ XferTracksTree
       /\ ~enable_delete => diff_state.deleted \subseteq DOMAIN manifest_xfer

\* the same for the syncs that may delete
XferTracksTreeWhenDeleting ==
    strategy = "LL" /\ pc = "done" /\ ~dry_run /\ raised = {} /\ enable_delete =>
       XferTracksTree

\* a sync that may delete has removed a path and created another
DeletingSyncSeen ==
    /\ strategy = "LL" /\ pc = "done" /\ ~dry_run /\ raised = {} /\ enable_delete
    /\ diff_state.deleted # {}
    /\ diff_state.added # {}

====
